---- MODULE Spec2Model ----
(***************************************************************************)
(* dc4: a model of the evaluator (src/src/state.rs), the scaled decimal    *)
(* number type (src/src/big_real.rs), the register file                    *)
(* (src/src/dcregisters.rs), the byte parser (src/src/parser.rs,           *)
(* src/src/reader_parser.rs) and the macro runner (DC4::program and        *)
(* DC4::run_macro in src/src/state.rs).                                    *)
(***************************************************************************)
EXTENDS Integers, Sequences, FiniteSets, TLC

VARIABLES
    dc,               \* the DC4 evaluator, its writer and standard input
    frames,           \* the run_macro calls in progress, outermost first
    input,            \* the actions ReaderParser yields for the top-level input
    ip,               \* how many of them DC4::program has taken
    status,           \* "running", "done" (program returned) or "panicked"
    result,           \* the DCResult program returned
    overflow_checks,  \* whether the build panics on integer overflow
    last,             \* the step just taken
    ref,              \* a second run of the same input without tail-call replacement
    phase,            \* "run", or "ready" and "applied" for a single action
    reader,           \* a ReaderParser over the bytes of one input
    trace             \* what has happened so far in a run of the reader or of register commands

vars == <<dc, frames, input, ip, status, result, overflow_checks, last, ref, phase, reader, trace>>

(***************************************************************************)
(* Bytes.  A byte is its value 0..255; program texts are written as        *)
(* sequences of one-character strings and converted with Bytes.            *)
(***************************************************************************)
\* The printable characters 32..95, then 97..126 (96 is not used).
Ascii ==
    <<" ", "!", "\"", "#", "$", "%", "&", "'", "(", ")", "*", "+", ",", "-", ".", "/",
      "0", "1", "2", "3", "4", "5", "6", "7", "8", "9", ":", ";", "<", "=", ">", "?",
      "@", "A", "B", "C", "D", "E", "F", "G", "H", "I", "J", "K", "L", "M", "N", "O",
      "P", "Q", "R", "S", "T", "U", "V", "W", "X", "Y", "Z", "[", "\\", "]", "^", "_",
      "a", "b", "c", "d", "e", "f", "g", "h", "i", "j", "k", "l", "m", "n", "o",
      "p", "q", "r", "s", "t", "u", "v", "w", "x", "y", "z", "{", "|", "}", "~">>

Ord(c) ==
    IF c = "\n" THEN 10
    ELSE LET i == CHOOSE j \in 1..Len(Ascii) : Ascii[j] = c
         IN  IF i <= 64 THEN 31 + i ELSE 32 + i

Bytes(s) == [i \in 1..Len(s) |-> Ord(s[i])]

Max(a, b) == IF a >= b THEN a ELSE b

Min(a, b) == IF a <= b THEN a ELSE b

Abs(a) == IF a < 0 THEN -a ELSE a

\* BigInt division: the quotient truncated toward zero (rhs # 0).
TruncDiv(a, b) ==
    IF (a >= 0) = (b > 0) THEN Abs(a) \div Abs(b) ELSE -(Abs(a) \div Abs(b))

\* The remainder of BigInt div_rem: it has the sign of the dividend.
TruncRem(a, b) == a - b * TruncDiv(a, b)

RECURSIVE Pow10(_)
Pow10(n) == IF n <= 0 THEN 1 ELSE 10 * Pow10(n - 1)

(***************************************************************************)
(* BigReal (src/src/big_real.rs): value * 10^(-shift).                     *)
(***************************************************************************)
BigReal(value, shift) == [shift |-> shift, value |-> value]

Zero == BigReal(0, 0)

One == BigReal(1, 0)

change_shift(x, desired_shift) ==
    IF desired_shift > x.shift
    THEN BigReal(x.value * Pow10(desired_shift - x.shift), desired_shift)
    ELSE BigReal(TruncDiv(x.value, Pow10(x.shift - desired_shift)), desired_shift)

RECURSIVE simplify(_)
simplify(x) ==
    IF x.shift = 0 THEN x
    ELSE IF TruncRem(x.value, 10) # 0 THEN x
    ELSE simplify(BigReal(TruncDiv(x.value, 10), x.shift - 1))

is_zero(x) == x.value = 0

is_positive(x) == x.value > 0

is_negative(x) == x.value < 0

is_integer(x) == x.shift = 0

abs(x) == BigReal(Abs(x.value), x.shift)

to_int(x) == simplify(change_shift(x, 0)).value

num_frx_digits(x) == x.shift

\* -1, 0 or 1: the Ordering of partial_cmp.
partial_cmp(a, b) ==
    LET max_shift == Max(a.shift, b.shift)
        x == IF a.shift = b.shift THEN a.value ELSE change_shift(a, max_shift).value
        y == IF a.shift = b.shift THEN b.value ELSE change_shift(b, max_shift).value
    IN  IF x < y THEN -1 ELSE IF x = y THEN 0 ELSE 1

eq(a, b) ==
    IF a.shift = b.shift THEN a.value = b.value
    ELSE LET max_shift == Max(a.shift, b.shift)
         IN  change_shift(a, max_shift).value = change_shift(b, max_shift).value

add(a, b) ==
    IF a.shift = b.shift THEN BigReal(a.value + b.value, a.shift)
    ELSE LET x == IF a.shift > b.shift THEN a ELSE b
             y == IF a.shift > b.shift THEN b ELSE a
         IN  BigReal(x.value + change_shift(y, x.shift).value, x.shift)

sub(a, b) == add(a, BigReal(-b.value, b.shift))

mul(a, b) == BigReal(a.value * b.value, a.shift + b.shift)

adjust_for_div(a, rhs, scale) ==
    LET max_shift == Max(a.shift, rhs.shift)
    IN  <<change_shift(a, max_shift + scale).value, change_shift(rhs, max_shift).value>>

\* div rounding the quotient toward minus infinity.
div_floors(a, rhs, scale) ==
    LET adj == adjust_for_div(a, rhs, scale)
        q == TruncDiv(adj[1], adj[2])
    IN  BigReal(IF TruncRem(adj[1], adj[2]) # 0 /\ (adj[1] < 0) # (adj[2] < 0) THEN q - 1 ELSE q,
                scale)

\* rhs # 0: BigInt division by zero aborts the process (see div_panics).
div(a, rhs, scale) ==
    LET adj == adjust_for_div(a, rhs, scale)
    IN  BigReal(TruncDiv(adj[1], adj[2]), scale)

div_panics(a, rhs, scale) == adjust_for_div(a, rhs, scale)[2] = 0

\* rem taking the quotient at scale 0 whatever the scale is.
rem_unscaled(a, rhs, scale) == sub(a, mul(rhs, div(a, rhs, 0)))

rem(a, rhs, scale) == sub(a, mul(rhs, div(a, rhs, scale)))

div_rem(a, rhs, scale) ==
    LET d == div(a, rhs, scale)
    IN  <<d, sub(a, mul(rhs, d))>>

\* Bound on the Newton iterations of sqrt the model follows.
MaxNewton == 12

\* pow: [panic, r]; panic is the BigInt division by zero of 1 / 0.
RECURSIVE pow_even(_, _)
pow_even(base, exponent) ==
    IF exponent % 2 = 0 THEN pow_even(mul(base, base), exponent \div 2)
    ELSE <<base, exponent>>

RECURSIVE pow_loop(_, _, _)
pow_loop(base_, exponent, result_) ==
    IF exponent - 1 > 0
    THEN LET e2 == exponent \div 2
             b2 == mul(base_, base_)
         IN  pow_loop(b2, e2, IF e2 % 2 = 1 THEN mul(result_, b2) ELSE result_)
    ELSE result_

\* pow returning the product for a negative exponent too.
pow_ignores_sign(self, exponent_, scale) ==
    LET exponent == Abs(change_shift(exponent_, 0).value)
    IN  IF exponent = 0 THEN [panic |-> FALSE, r |-> One]
        ELSE LET be == pow_even(self, exponent)
             IN  [panic |-> FALSE, r |-> pow_loop(be[1], be[2], be[1])]

pow(self, exponent_, scale) ==
    LET negative == is_negative(exponent_)
        exponent == Abs(change_shift(exponent_, 0).value)
    IN  IF exponent = 0 THEN [panic |-> FALSE, r |-> One]
        ELSE LET be == pow_even(self, exponent)
                 res == pow_loop(be[1], be[2], be[1])
             IN  IF negative
                 THEN IF div_panics(One, res, scale)
                      THEN [panic |-> TRUE, r |-> Zero]
                      ELSE [panic |-> FALSE, r |-> div(One, res, scale)]
                 ELSE [panic |-> FALSE, r |-> res]

\* sqrt of a non-negative number: [panic, diverged, r]; panic is self.div(x)
\* with x = 0, diverged is the loop still running after MaxNewton rounds.
RECURSIVE sqrt_loop(_, _, _, _)
sqrt_loop(self, x, scale, fuel) ==
    IF fuel = 0 THEN [panic |-> FALSE, diverged |-> TRUE, r |-> x]
    ELSE IF div_panics(self, x, scale) THEN [panic |-> TRUE, diverged |-> FALSE, r |-> x]
    ELSE LET next == div(add(x, div(self, x, scale)), BigReal(2, 0), scale)
             delta == abs(sub(x, next))
         IN  IF ~(delta.value - 1 > 0)
             THEN [panic |-> FALSE, diverged |-> FALSE, r |-> next]
             ELSE sqrt_loop(self, next, scale, fuel - 1)

\* sqrt with zero as the first iterate.
sqrt_from_zero(self, scale) == sqrt_loop(self, Zero, Max(self.shift, scale), MaxNewton)

sqrt(self, scale) == sqrt_loop(self, self, Max(self.shift, scale), MaxNewton)

RECURSIVE modexp_loop(_, _, _, _, _)
modexp_loop(base, exponent, result_, modulus, scale) ==
    IF is_zero(exponent) THEN result_
    ELSE LET odd == is_zero(sub(rem(exponent, BigReal(2, 0), scale), One))
             r2 == IF odd THEN rem(mul(result_, base), modulus, 0) ELSE result_
         IN  modexp_loop(rem(mul(base, base), modulus, 0),
                         div(exponent, BigReal(2, 0), 0), r2, modulus, scale)

\* exponent >= 0 and modulus # 0 (the evaluator checks both before the call).
modexp(base, exponent, modulus, scale) ==
    IF is_zero(sub(modulus, One)) THEN Zero
    ELSE modexp_loop(rem(base, modulus, 0), change_shift(exponent, 0), One, modulus, scale)

\* One digit of BigInt::to_str_radix: 0-9, then lower case letters.
digit_char(d) == IF d < 10 THEN 48 + d ELSE 97 + (d - 10)

RECURSIVE nat_to_str_radix(_, _)
nat_to_str_radix(n, radix) ==
    IF n < radix THEN <<digit_char(n)>>
    ELSE Append(nat_to_str_radix(n \div radix, radix), digit_char(n % radix))

\* BigInt::to_str_radix: a minus sign, then the digits of the magnitude.
int_to_str_radix(v, radix) ==
    IF v < 0 THEN <<45>> \o nat_to_str_radix(-v, radix) ELSE nat_to_str_radix(v, radix)

num_digits(x) == Len(int_to_str_radix(x.value, 10))

RECURSIVE frac_digits(_, _, _, _)
frac_digits(part, place, max_place, radix) ==
    LET q == TruncDiv(part, max_place)
        r == TruncRem(part, max_place)
    IN  int_to_str_radix(q, radix)
            \o (IF place >= max_place THEN <<>>
                ELSE frac_digits(r * radix, place * radix, max_place, radix))

to_str_radix(x, radix) ==
    IF x.shift = 0 THEN int_to_str_radix(x.value, radix)
    ELSE IF radix = 10
    THEN LET digits == int_to_str_radix(Abs(x.value), radix)
             sign == IF is_negative(x) THEN <<45>> ELSE <<>>
         IN  IF Len(digits) < x.shift
             THEN sign \o <<46>> \o [i \in 1..(x.shift - Len(digits)) |-> 48] \o digits
             ELSE LET decimal_pos == Len(digits) - x.shift
                  IN  sign \o SubSeq(digits, 1, decimal_pos) \o <<46>>
                           \o SubSeq(digits, decimal_pos + 1, Len(digits))
    ELSE LET sign == IF x.value < 0 THEN <<45>> ELSE <<>>
             whole == abs(change_shift(x, 0))
             wstr == IF whole.value # 0 THEN int_to_str_radix(whole.value, radix) ELSE <<>>
             part == Abs(x.value - change_shift(whole, x.shift).value) * radix
             max_place == change_shift(One, x.shift).value
         IN  sign \o wstr \o <<46>> \o frac_digits(part, radix, max_place, radix)

\* ToPrimitive: the integer part when it fits the type, else None (-1 here).
\* Every integer of the model is below 2^31, so only the sign can fail.
to_u32(x) == LET v == change_shift(x, 0).value IN IF v < 0 THEN -1 ELSE v

(***************************************************************************)
(* DCValue: Num(BigReal) or Str(bytes); NoValue is Option::None.           *)
(***************************************************************************)
Num(n) == [t |-> "Num", n |-> n, s |-> <<>>]

Str(bytes) == [t |-> "Str", n |-> Zero, s |-> bytes]

NoValue == [t |-> "None", n |-> Zero, s |-> <<>>]

(***************************************************************************)
(* Registers (src/src/dcregisters.rs).  A register stack is a sequence of  *)
(* DCRegister slots, the last one on top; a slot's map is a set of         *)
(* [key, val] entries, keyed by the simplified BigReal (Hash and Eq of     *)
(* BigReal agree on it).  DCRegisters holds one stack per byte; the model  *)
(* keeps the non-empty ones.                                               *)
(***************************************************************************)
DCRegister(value) == [main_value |-> value, map |-> {}]

\* map_lookup if keys were told apart by their representation.
map_lookup_by_representation(reg, key) ==
    LET hits == {e \in reg.map : e.key = key}
    IN  IF hits = {} THEN NoValue ELSE (CHOOSE e \in hits : TRUE).val

\* What Hash for BigReal feeds the hasher: the shift and value of the
\* simplified number.
hash(x) == <<simplify(x).shift, simplify(x).value>>

map_lookup(reg, key) ==
    LET hits == {e \in reg.map : e.key = simplify(key)}
    IN  IF hits = {} THEN NoValue ELSE (CHOOSE e \in hits : TRUE).val

map_insert(reg, key, value) ==
    [reg EXCEPT !.map = {e \in reg.map : e.key # simplify(key)}
                            \cup {[key |-> simplify(key), val |-> value]}]

\* DCRegisterStack::value
reg_value(stack) ==
    IF stack = <<>> THEN NoValue ELSE stack[Len(stack)].main_value

array_store(stack, key, value) ==
    LET st == IF stack = <<>> THEN <<DCRegister(NoValue)>> ELSE stack
    IN  [st EXCEPT ![Len(st)] = map_insert(st[Len(st)], key, value)]

array_load(stack, key) ==
    IF stack = <<>> THEN Num(Zero)
    ELSE LET v == map_lookup(stack[Len(stack)], key)
         IN  IF v = NoValue THEN Num(Zero) ELSE v

reg_set(stack, value) ==
    LET st == IF stack # <<>> THEN SubSeq(stack, 1, Len(stack) - 1) ELSE stack
    IN  Append(st, DCRegister(value))

\* DCRegisterStack::pop that removes the top slot and returns the main value
\* of the bottom one.
reg_pop_first(stack) ==
    IF stack = <<>> THEN <<stack, NoValue>>
    ELSE <<SubSeq(stack, 1, Len(stack) - 1), stack[1].main_value>>

\* DCRegisterStack::pop: <<the stack after, the main value of the slot removed>>
reg_pop(stack) ==
    IF stack = <<>> THEN <<stack, NoValue>>
    ELSE <<SubSeq(stack, 1, Len(stack) - 1), stack[Len(stack)].main_value>>

\* DCRegisterStack::push with the new slot taking over the array of the
\* slot below it.
reg_push_inherits(stack, value) ==
    Append(stack, [main_value |-> value,
                   map |-> IF stack = <<>> THEN {} ELSE stack[Len(stack)].map])

reg_push(stack, value) == Append(stack, DCRegister(value))

\* DCRegisters::get
get(registers, c) == IF c \in DOMAIN registers THEN registers[c] ELSE <<>>

\* DCRegisters::get_mut followed by a write of the register stack
put(registers, c, stack) ==
    IF stack = <<>>
    THEN [r \in (DOMAIN registers) \ {c} |-> registers[r]]
    ELSE [r \in (DOMAIN registers) \cup {c} |-> IF r = c THEN stack ELSE registers[r]]

(***************************************************************************)
(* Actions and the parser (src/src/parser.rs).  An Action is a record:     *)
(* op names the variant; c is the byte of NumberChar, StringChar,          *)
(* Unimplemented and the register of Register; ra is the RegisterAction    *)
(* (the Comparison for a comparison); c2 is the second register of IfElse. *)
(***************************************************************************)
Action(op) == [op |-> op, ra |-> "", c |-> 0, c2 |-> 0]

ActionChar(op, c) == [op |-> op, ra |-> "", c |-> c, c2 |-> 0]

Register(ra, c) == [op |-> "Register", ra |-> ra, c |-> c, c2 |-> 0]

IfElse(cmp, c, c2) == [op |-> "IfElse", ra |-> cmp, c |-> c, c2 |-> c2]

InputError(kind) == [op |-> "InputError", ra |-> kind, c |-> 0, c2 |-> 0]

NoAction == Action("None")

Comparisons == {"Gt", "Le", "Lt", "Ge", "Eq", "Ne"}

\* Option<u8>::None
NoByte == -1

ParseState(st) ==
    [st |-> st, decimal |-> FALSE, level |-> 0, bs |-> FALSE, ra |-> "",
     first_reg |-> 0, second |-> FALSE]

StateNumber(decimal) == [ParseState("Number") EXCEPT !.decimal = decimal]

StateString(level, bs) == [ParseState("String") EXCEPT !.level = level, !.bs = bs]

StateRegister(ra) == [ParseState("Register") EXCEPT !.ra = ra]

StateTwoRegister(cmp, first_reg, second) ==
    [ParseState("TwoRegister") EXCEPT !.ra = cmp, !.first_reg = first_reg, !.second = second]

\* The one-byte commands of the Start state.
SimpleCommands ==
    << <<"p", "Print">>, <<"n", "PrintNoNewlinePop">>, <<"P", "PrintBytesPop">>,
       <<"f", "PrintStack">>, <<"+", "Add">>, <<"-", "Sub">>, <<"*", "Mul">>,
       <<"/", "Div">>, <<"%", "Rem">>, <<"~", "DivRem">>, <<"^", "Exp">>,
       <<"|", "ModExp">>, <<"v", "Sqrt">>, <<"c", "ClearStack">>, <<"d", "Dup">>,
       <<"r", "Swap">>, <<"i", "SetInputRadix">>, <<"o", "SetOutputRadix">>,
       <<"k", "SetPrecision">>, <<"I", "LoadInputRadix">>, <<"O", "LoadOutputRadix">>,
       <<"K", "LoadPrecision">>, <<"a", "Asciify">>, <<"x", "ExecuteMacro">>,
       <<"?", "Input">>, <<"q", "Quit">>, <<"Q", "QuitLevels">>, <<"Z", "NumDigits">>,
       <<"X", "NumFrxDigits">>, <<"z", "StackDepth">>, <<"@", "Version">> >>

SimpleTable ==
    [b \in {Ord(SimpleCommands[i][1]) : i \in 1..Len(SimpleCommands)} |->
        SimpleCommands[CHOOSE i \in 1..Len(SimpleCommands) : Ord(SimpleCommands[i][1]) = b][2]]

\* The commands of the Start state that await a register byte.
RegisterCommands ==
    << <<"s", "Store">>, <<"l", "Load">>, <<"S", "PushRegStack">>, <<"L", "PopRegStack">>,
       <<">", "Gt">>, <<"<", "Lt">>, <<"=", "Eq">>, <<":", "StoreRegArray">>,
       <<";", "LoadRegArray">> >>

RegisterTable ==
    [b \in {Ord(RegisterCommands[i][1]) : i \in 1..Len(RegisterCommands)} |->
        RegisterCommands[CHOOSE i \in 1..Len(RegisterCommands) : Ord(RegisterCommands[i][1]) = b][2]]

\* The extension commands (bsd, gavin), parsed when extensions is set.
ExtensionCommands ==
    << <<"G", "CompareEq">>, <<"N", "CompareZero">>, <<"(", "CompareLt">>,
       <<"{", "CompareLe">>, <<")", "CompareGt">>, <<"}", "CompareGe">> >>

ExtensionTable ==
    [b \in {Ord(ExtensionCommands[i][1]) : i \in 1..Len(ExtensionCommands)} |->
        ExtensionCommands[CHOOSE i \in 1..Len(ExtensionCommands) : Ord(ExtensionCommands[i][1]) = b][2]]

Whitespace == {32, 9, 13, 10}

\* b'0' ..= b'9' | b'A' ..= b'F'
IsDigit(c) == (c >= 48 /\ c <= 57) \/ (c >= 65 /\ c <= 70)

\* Parser::default
extensions == TRUE

\* What a step yields: the new state, the action (NoAction for None) and the
\* input after the call (NoByte when the byte was consumed).
Yield(state, action, inp) == [state |-> state, action |-> action, input |-> inp]

\* next_eof with an unfinished string dropped.
next_eof_drops_string(self) ==
    LET action ==
            CASE self.st \in {"Start", "Comment", "Bang", "String"} -> Action("Eof")
              [] self.st = "Number" -> Action("PushNumber")
              [] self.st = "ShellExec" -> Action("ShellExec")
              [] self.st = "Register" -> InputError("UnexpectedEof")
              [] self.st = "TwoRegister" /\ ~self.second -> Register(self.ra, self.first_reg)
              [] self.st = "TwoRegister" /\ self.second -> InputError("UnexpectedEof")
    IN  Yield(ParseState("Start"), action, NoByte)

\* next_eof with a shell command that has no newline dropped.
next_eof_drops_shell(self) ==
    LET action ==
            CASE self.st \in {"Start", "Comment", "Bang", "ShellExec"} -> Action("Eof")
              [] self.st = "Number" -> Action("PushNumber")
              [] self.st = "String" -> Action("PushString")
              [] self.st = "Register" -> InputError("UnexpectedEof")
              [] self.st = "TwoRegister" /\ ~self.second -> Register(self.ra, self.first_reg)
              [] self.st = "TwoRegister" /\ self.second -> InputError("UnexpectedEof")
    IN  Yield(ParseState("Start"), action, NoByte)

\* ParseState::next at end of input (input is None).
next_eof(self) ==
    LET action ==
            CASE self.st \in {"Start", "Comment", "Bang"} -> Action("Eof")
              [] self.st = "Number" -> Action("PushNumber")
              [] self.st = "String" -> Action("PushString")
              [] self.st = "ShellExec" -> Action("ShellExec")
              [] self.st = "Register" -> InputError("UnexpectedEof")
              [] self.st = "TwoRegister" /\ ~self.second -> Register(self.ra, self.first_reg)
              [] self.st = "TwoRegister" /\ self.second -> InputError("UnexpectedEof")
    IN  Yield(ParseState("Start"), action, NoByte)

next_start(self, c) ==
    CASE c \in Whitespace -> Yield(self, NoAction, NoByte)
      [] c = 95 \/ IsDigit(c) \/ c = 46 ->
            Yield(StateNumber(c = 46), ActionChar("NumberChar", c), NoByte)
      [] c \in DOMAIN SimpleTable -> Yield(self, Action(SimpleTable[c]), NoByte)
      [] c \in DOMAIN RegisterTable -> Yield(StateRegister(RegisterTable[c]), NoAction, NoByte)
      [] c = 91 -> Yield(StateString(0, FALSE), NoAction, NoByte)
      [] c = 33 -> Yield(ParseState("Bang"), NoAction, NoByte)
      [] c = 35 -> Yield(ParseState("Comment"), NoAction, NoByte)
      [] c \in DOMAIN ExtensionTable /\ extensions ->
            Yield(self, Action(ExtensionTable[c]), NoByte)
      [] OTHER -> Yield(self, ActionChar("Unimplemented", c), NoByte)

\* next_number with a second '.' taken as part of the number.
next_number_two_dots(self, c) ==
    CASE IsDigit(c) -> Yield(StateNumber(self.decimal), ActionChar("NumberChar", c), NoByte)
      [] c = 46 -> Yield(StateNumber(TRUE), ActionChar("NumberChar", c), NoByte)
      [] OTHER -> Yield(ParseState("Start"), Action("PushNumber"), c)

\* next_number with the terminating byte consumed instead of put back.
next_number_consumes(self, c) ==
    CASE IsDigit(c) -> Yield(StateNumber(self.decimal), ActionChar("NumberChar", c), NoByte)
      [] c = 46 /\ ~self.decimal -> Yield(StateNumber(TRUE), ActionChar("NumberChar", c), NoByte)
      [] OTHER -> Yield(ParseState("Start"), Action("PushNumber"), NoByte)

next_number(self, c) ==
    CASE IsDigit(c) -> Yield(StateNumber(self.decimal), ActionChar("NumberChar", c), NoByte)
      [] c = 46 /\ ~self.decimal -> Yield(StateNumber(TRUE), ActionChar("NumberChar", c), NoByte)
      [] OTHER -> Yield(ParseState("Start"), Action("PushNumber"), c)

\* next_string with a `]` at level 0 ending the string even after a backslash.
next_string_no_escape(self, c) ==
    CASE c = 92 /\ ~self.bs -> Yield(StateString(self.level, TRUE), NoAction, NoByte)
      [] c = 91 /\ ~self.bs ->
            Yield(StateString(self.level + 1, FALSE), ActionChar("StringChar", c), NoByte)
      [] c = 93 /\ ~self.bs /\ self.level > 0 ->
            Yield(StateString(self.level - 1, FALSE), ActionChar("StringChar", c), NoByte)
      [] c = 93 /\ self.level = 0 ->
            Yield(ParseState("Start"), Action("PushString"), NoByte)
      [] OTHER -> Yield(StateString(self.level, FALSE), ActionChar("StringChar", c), NoByte)

next_string(self, c) ==
    CASE c = 92 /\ ~self.bs -> Yield(StateString(self.level, TRUE), NoAction, NoByte)
      [] c = 91 /\ ~self.bs ->
            Yield(StateString(self.level + 1, FALSE), ActionChar("StringChar", c), NoByte)
      [] c = 93 /\ ~self.bs /\ self.level > 0 ->
            Yield(StateString(self.level - 1, FALSE), ActionChar("StringChar", c), NoByte)
      [] c = 93 /\ ~self.bs /\ self.level = 0 ->
            Yield(ParseState("Start"), Action("PushString"), NoByte)
      [] OTHER -> Yield(StateString(self.level, FALSE), ActionChar("StringChar", c), NoByte)

next_bang(self, c) ==
    CASE c = 62 -> Yield(StateRegister("Le"), NoAction, NoByte)
      [] c = 60 -> Yield(StateRegister("Ge"), NoAction, NoByte)
      [] c = 61 -> Yield(StateRegister("Ne"), NoAction, NoByte)
      [] OTHER -> Yield(ParseState("ShellExec"), NoAction, NoByte)

\* next_register if white space after the command were passed over.
next_register_skips_space(self, c) ==
    IF c \in Whitespace THEN Yield(self, NoAction, NoByte)
    ELSE IF self.ra \in Comparisons /\ extensions
    THEN Yield(StateTwoRegister(self.ra, c, FALSE), NoAction, NoByte)
    ELSE Yield(ParseState("Start"), Register(self.ra, c), NoByte)

next_register(self, c) ==
    IF self.ra \in Comparisons /\ extensions
    THEN Yield(StateTwoRegister(self.ra, c, FALSE), NoAction, NoByte)
    ELSE Yield(ParseState("Start"), Register(self.ra, c), NoByte)

next_two_register(self, c) ==
    IF ~self.second
    THEN IF c = 101
         THEN Yield(StateTwoRegister(self.ra, self.first_reg, TRUE), NoAction, NoByte)
         ELSE Yield(ParseState("Start"), Register(self.ra, self.first_reg), c)
    ELSE Yield(ParseState("Start"), IfElse(self.ra, self.first_reg, c), NoByte)

\* ParseState::next / Parser::step
next(self, inp) ==
    IF inp = NoByte THEN next_eof(self)
    ELSE CASE self.st = "Start" -> next_start(self, inp)
           [] self.st = "Comment" ->
                Yield(IF inp = 10 THEN ParseState("Start") ELSE self, NoAction, NoByte)
           [] self.st = "Number" -> next_number(self, inp)
           [] self.st = "String" -> next_string(self, inp)
           [] self.st = "ShellExec" ->
                IF inp = 10 THEN Yield(ParseState("Start"), Action("ShellExec"), NoByte)
                ELSE Yield(ParseState("ShellExec"), NoAction, NoByte)
           [] self.st = "Bang" -> next_bang(self, inp)
           [] self.st = "Register" -> next_register(self, inp)
           [] self.st = "TwoRegister" -> next_two_register(self, inp)

(***************************************************************************)
(* ReaderParser (src/src/reader_parser.rs) over a byte sequence that reads *)
(* without I/O errors: reader_next is one call of Iterator::next on the    *)
(* record [bytes, pos, inner, parser, stashed].                            *)
(***************************************************************************)
ReaderParser(bytes) ==
    [bytes |-> bytes, pos |-> 1, inner |-> TRUE, parser |-> ParseState("Start"),
     stashed |-> NoByte]

\* One call of Parser::step as the reader made it: the state it was in, the
\* byte it was given (NoByte at end of input), the action it returned, the
\* byte it put back and the state it went to.
ParserStep(state, c, y) ==
    [state |-> state, c |-> c, action |-> y.action, back |-> y.input, to |-> y.state]

\* The result of reader_loop with one more call of Parser::step before it.
after_step(s, n) == [n EXCEPT !.steps = <<s>> \o @]

\* [rp, item, steps]: item is the Action returned, Action("Eof") for None;
\* steps are the calls of Parser::step made, in order.
RECURSIVE reader_loop(_, _)
reader_loop(rp, c) ==
    LET fromStash == c = NoByte /\ rp.stashed # NoByte
        fromInner == c = NoByte /\ rp.stashed = NoByte /\ rp.inner
        more == fromInner /\ rp.pos <= Len(rp.bytes)
        c1 == IF c # NoByte THEN c
              ELSE IF fromStash THEN rp.stashed
              ELSE IF more THEN rp.bytes[rp.pos]
              ELSE NoByte
        rp1 == [rp EXCEPT !.stashed = IF fromStash THEN NoByte ELSE @,
                          !.inner = IF fromInner THEN more ELSE @,
                          !.pos = IF more THEN @ + 1 ELSE @]
        y == next(rp1.parser, c1)
        rp2 == [rp1 EXCEPT !.parser = y.state]
    IN  IF y.action # NoAction
        THEN LET rp3 == [rp2 EXCEPT !.stashed = IF y.input # NoByte THEN y.input ELSE @]
             IN  IF y.action.op = "Eof"
                 THEN [rp |-> [rp3 EXCEPT !.inner = FALSE], item |-> y.action,
                       steps |-> <<ParserStep(rp1.parser, c1, y)>>]
                 ELSE [rp |-> rp3, item |-> y.action,
                       steps |-> <<ParserStep(rp1.parser, c1, y)>>]
        ELSE after_step(ParserStep(rp1.parser, c1, y), reader_loop(rp2, y.input))

reader_next(rp) == reader_loop(rp, NoByte)

\* Every action a ReaderParser yields, in order (what `for action in
\* ReaderParser::new(r)` iterates over).
RECURSIVE reader_collect(_)
reader_collect(rp) ==
    LET n == reader_next(rp)
    IN  IF n.item.op = "Eof" THEN <<>> ELSE <<n.item>> \o reader_collect(n.rp)

ReaderActions(bytes) == reader_collect(ReaderParser(bytes))

\* DCString::actions: the parsed text of a macro, ended by Eof.
actions(bytes) == Append(ReaderActions(bytes), Action("Eof"))

(***************************************************************************)
(* Number (src/src/state.rs): a number being built up from input.          *)
(* shift is NoShift for Option::None.                                      *)
(***************************************************************************)
NoShift == -1

NumberDefault == [int |-> 0, shift |-> NoShift, neg |-> FALSE]

\* (c as char).to_digit(16) for b'0'..=b'9' | b'A'..=b'F'
to_digit(c) == IF c <= 57 THEN c - 48 ELSE c - 55

\* Number::push if a digit that is not below iradix were passed over.
number_push_checks_radix(num, c, iradix) ==
    CASE c = 95 -> [num EXCEPT !.neg = TRUE]
      [] IsDigit(c) /\ to_digit(c) >= iradix -> num
      [] IsDigit(c) ->
            [num EXCEPT !.int = @ * iradix + to_digit(c),
                        !.shift = IF @ # NoShift THEN @ + 1 ELSE @]
      [] c = 46 -> [num EXCEPT !.shift = 0]

\* Number::push
number_push(num, c, iradix) ==
    CASE c = 95 -> [num EXCEPT !.neg = TRUE]
      [] IsDigit(c) ->
            [num EXCEPT !.int = @ * iradix + to_digit(c),
                        !.shift = IF @ # NoShift THEN @ + 1 ELSE @]
      [] c = 46 -> [num EXCEPT !.shift = 0]

RECURSIVE finish_div(_, _, _, _)
finish_div(real, divisor, shift, n) ==
    IF n = 0 THEN real ELSE finish_div(div(real, divisor, shift), divisor, shift, n - 1)

\* Number::finish
number_finish(num, iradix) ==
    LET real == BigReal(IF num.neg THEN num.int * (-1) ELSE num.int, 0)
    IN  IF num.shift = NoShift THEN Num(real)
        ELSE IF iradix = 10 THEN Num(BigReal(real.value, num.shift))
        ELSE Num(finish_div(real, BigReal(iradix, 0), num.shift, num.shift))

(***************************************************************************)
(* DCResult and DCError (the Result of DC4::action).  Panic is a Rust      *)
(* panic: the process aborts.                                              *)
(***************************************************************************)
DCResult(kind) == [kind |-> kind, n |-> 0, text |-> <<>>, msg |-> "", b |-> <<>>]

Continue == DCResult("Continue")

Macro(text) == [DCResult("Macro") EXCEPT !.text = text]

QuitLevels(n) == [DCResult("QuitLevels") EXCEPT !.n = n]

Terminate(n) == [DCResult("Terminate") EXCEPT !.n = n]

\* Err(msg); b holds the bytes formatted into the message.
Err(msg, b) == [DCResult("Err") EXCEPT !.msg = msg, !.b = b]

Panic(msg) == [DCResult("Panic") EXCEPT !.msg = msg]

(***************************************************************************)
(* DC4 (src/src/state.rs).  The record holds the fields of the struct,     *)
(* the writer w (out: the chunks written so far) and the lines standard    *)
(* input still holds.  An error line "<program_name>: <msg>" is one chunk  *)
(* of kind "error".                                                        *)
(***************************************************************************)
new(stdin) ==
    [stack |-> <<>>, registers |-> <<>>, scale |-> 0, iradix |-> 10, oradix |-> 10,
     current_str |-> <<>>, current_num |-> NumberDefault, out |-> <<>>, stdin |-> stdin]

\* Bytes written to w; consecutive writes form one chunk of kind "out".
write(d, bytes) ==
    LET n == Len(d.out)
    IN  IF bytes = <<>> THEN d
        ELSE IF n > 0 /\ d.out[n].kind = "out"
        THEN [d EXCEPT !.out[n].b = @ \o bytes]
        ELSE [d EXCEPT !.out = Append(@, [kind |-> "out", msg |-> "", b |-> bytes])]

\* DC4::error that writes nothing.
error_silent(d, msg, b) == d

\* DC4::error
error(d, msg, b) == [d EXCEPT !.out = Append(@, [kind |-> "error", msg |-> msg, b |-> b])]

Res(d, r) == [d |-> d, r |-> r]

Ok(d) == Res(d, Continue)

top(d) == d.stack[Len(d.stack)]

popped(d) == [d EXCEPT !.stack = SubSeq(@, 1, Len(@) - 1)]

push(d, v) == [d EXCEPT !.stack = Append(@, v)]

to_uppercase(bytes) ==
    [i \in 1..Len(bytes) |-> IF bytes[i] >= 97 /\ bytes[i] <= 122 THEN bytes[i] - 32 ELSE bytes[i]]

\* DC4::print_elem with the digits left in lower case.
print_elem_lowercase(d, elem) ==
    IF elem.t = "Num"
    THEN IF is_zero(elem.n) THEN <<48>> ELSE to_str_radix(elem.n, d.oradix)
    ELSE elem.s

\* DC4::print_elem: the bytes written
print_elem(d, elem) ==
    IF elem.t = "Num"
    THEN IF is_zero(elem.n) THEN <<48>> ELSE to_uppercase(to_str_radix(elem.n, d.oradix))
    ELSE elem.s

\* DC4::get_two_ints: err is "" for Ok((a, b))
get_two_ints(d) ==
    LET len == Len(d.stack)
    IN  IF len < 2 THEN [err |-> "stack empty", a |-> Zero, b |-> Zero]
        ELSE IF d.stack[len - 1].t # "Num" THEN [err |-> "non-numeric value", a |-> Zero, b |-> Zero]
        ELSE IF d.stack[len].t # "Num" THEN [err |-> "non-numeric value", a |-> Zero, b |-> Zero]
        ELSE [err |-> "", a |-> d.stack[len - 1].n, b |-> d.stack[len].n]

\* The closures handed to binary_operator: [err, panic, v, warn].
Closure(err, panic, v, warn) == [err |-> err, panic |-> panic, v |-> v, warn |-> warn]

binary_closure(op, a, b, scale) ==
    CASE op = "Add" -> Closure("", FALSE, add(a, b), FALSE)
      [] op = "Sub" -> Closure("", FALSE, sub(a, b), FALSE)
      [] op = "Mul" -> Closure("", FALSE, mul(a, b), FALSE)
      [] op = "Div" ->
            IF is_zero(b) THEN Closure("divide by zero", FALSE, Zero, FALSE)
            ELSE Closure("", FALSE, div(a, b, scale), FALSE)
      [] op = "Rem" ->
            IF is_zero(b) THEN Closure("remainder by zero", FALSE, Zero, FALSE)
            ELSE Closure("", FALSE, rem(a, b, scale), FALSE)
      [] op = "Exp" ->
            LET p == pow(a, b, scale)
            IN  Closure("", p.panic, p.r, ~is_integer(b))

\* binary_operator if the operands were popped before the closure ran.
binary_result_pops(d, f) ==
    IF f.err # "" THEN Res(popped(popped(d)), Err(f.err, <<>>))
    ELSE IF f.panic THEN Res(d, Panic("attempt to divide by zero"))
    ELSE IF f.warn
    THEN Ok(error(push(popped(popped(d)), Num(f.v)), "warning: non-zero scale in exponent", <<>>))
    ELSE Ok(push(popped(popped(d)), Num(f.v)))

\* DC4::binary_operator once the closure has returned f
binary_result(d, f) ==
    IF f.err # "" THEN Res(d, Err(f.err, <<>>))
    ELSE IF f.panic THEN Res(d, Panic("attempt to divide by zero"))
    ELSE IF f.warn
    THEN Ok(error(push(popped(popped(d)), Num(f.v)), "warning: non-zero scale in exponent", <<>>))
    ELSE Ok(push(popped(popped(d)), Num(f.v)))

\* DC4::binary_lambda and DC4::binary_operator
binary_operator(d, op) ==
    IF get_two_ints(d).err # "" THEN Res(d, Err(get_two_ints(d).err, <<>>))
    ELSE binary_result(d, binary_closure(op, get_two_ints(d).a, get_two_ints(d).b, d.scale))

\* The closures of cond_macro with a and b exchanged.
compare_flipped(ra, a, b) ==
    CASE ra = "Gt" -> partial_cmp(a, b) = 1
      [] ra = "Le" -> partial_cmp(a, b) <= 0
      [] ra = "Lt" -> partial_cmp(a, b) = -1
      [] ra = "Ge" -> partial_cmp(a, b) >= 0
      [] ra = "Eq" -> eq(a, b)
      [] ra = "Ne" -> ~eq(a, b)

\* The closures handed to cond_macro; a is second from the top, b is the top.
compare(ra, a, b) ==
    CASE ra = "Gt" -> partial_cmp(b, a) = 1
      [] ra = "Le" -> partial_cmp(b, a) <= 0
      [] ra = "Lt" -> partial_cmp(b, a) = -1
      [] ra = "Ge" -> partial_cmp(b, a) >= 0
      [] ra = "Eq" -> eq(b, a)
      [] ra = "Ne" -> ~eq(b, a)

\* cond_macro if the register were looked up before the operands are popped.
cond_macro_checks_first(d, register, ra) ==
    LET g == get_two_ints(d)
        d1 == popped(popped(d))
        value == reg_value(get(d.registers, register))
    IN  IF g.err # "" THEN Res(d, Err(g.err, <<>>))
        ELSE IF compare(ra, g.a, g.b)
        THEN CASE value.t = "Str" -> Res(d1, Macro(actions(value.s)))
               [] value.t = "Num" -> Ok(d1)
               [] value.t = "None" -> Res(d, Err("register is empty", <<register>>))
        ELSE Ok(d1)

\* cond_macro if the register were fetched whatever the test gives.
cond_macro_always_fetches(d, register, ra) ==
    LET g == get_two_ints(d)
        d1 == popped(popped(d))
        value == reg_value(get(d.registers, register))
    IN  IF g.err # "" THEN Res(d, Err(g.err, <<>>))
        ELSE IF value.t = "None" THEN Res(d1, Err("register is empty", <<register>>))
        ELSE IF compare(ra, g.a, g.b) /\ value.t = "Str" THEN Res(d1, Macro(actions(value.s)))
        ELSE Ok(d1)

\* DC4::cond_macro
cond_macro(d, register, ra) ==
    LET g == get_two_ints(d)
        d1 == popped(popped(d))
        value == reg_value(get(d.registers, register))
    IN  IF g.err # "" THEN Res(d, Err(g.err, <<>>))
        ELSE IF compare(ra, g.a, g.b)
        THEN CASE value.t = "Str" -> Res(d1, Macro(actions(value.s)))
               [] value.t = "Num" -> Ok(d1)
               [] value.t = "None" -> Res(d1, Err("register is empty", <<register>>))
        ELSE Ok(d1)

\* The arm Action::Register if `:r` looked at the key before it took the
\* value off the stack.
action_register_key_first(d, ra, register) ==
    LET empty == d.stack = <<>>
        regs == get(d.registers, register)
        d1 == popped(d)
    IN  CASE ra \in Comparisons -> cond_macro(d, register, ra)
          [] ra = "Store" ->
                IF empty THEN Res(d, Err("stack empty", <<>>))
                ELSE Ok([d1 EXCEPT !.registers = put(@, register, reg_set(regs, top(d)))])
          [] ra = "Load" ->
                IF reg_value(regs) = NoValue THEN Res(d, Err("register is empty", <<register>>))
                ELSE Ok(push(d, reg_value(regs)))
          [] ra = "PushRegStack" ->
                IF empty THEN Res(d, Err("stack empty", <<>>))
                ELSE Ok([d1 EXCEPT !.registers = put(@, register, reg_push(regs, top(d)))])
          [] ra = "PopRegStack" ->
                LET p == reg_pop(regs)
                    d2 == [d EXCEPT !.registers = put(@, register, p[1])]
                IN  IF p[2] = NoValue
                    THEN Res(d2, Err("stack register is empty", <<register>>))
                    ELSE Ok(push(d2, p[2]))
          [] ra = "StoreRegArray" ->
                IF empty THEN Res(d, Err("stack empty", <<>>))
                ELSE IF d1.stack = <<>> THEN Res(d1, Err("stack empty", <<>>))
                ELSE LET key == top(d)
                         value == top(d1)
                         d2 == popped(d1)
                     IN  IF key.t = "Num" /\ ~is_negative(key.n)
                         THEN Ok([d2 EXCEPT !.registers =
                                     put(@, register, array_store(regs, key.n, value))])
                         ELSE Res(d1, Err("array index must be a nonnegative integer", <<>>))
          [] ra = "LoadRegArray" ->
                IF empty THEN Res(d, Err("stack empty", <<>>))
                ELSE IF top(d).t = "Num" /\ ~is_negative(top(d).n)
                THEN Ok(push(d1, array_load(regs, top(d).n)))
                ELSE Res(d1, Err("array index must be a nonnegative integer", <<>>))

\* The arm Action::Register(action, register) of DC4::action
action_register(d, ra, register) ==
    LET empty == d.stack = <<>>
        regs == get(d.registers, register)
        d1 == popped(d)
    IN  CASE ra \in Comparisons -> cond_macro(d, register, ra)
          [] ra = "Store" ->
                IF empty THEN Res(d, Err("stack empty", <<>>))
                ELSE Ok([d1 EXCEPT !.registers = put(@, register, reg_set(regs, top(d)))])
          [] ra = "Load" ->
                IF reg_value(regs) = NoValue THEN Res(d, Err("register is empty", <<register>>))
                ELSE Ok(push(d, reg_value(regs)))
          [] ra = "PushRegStack" ->
                IF empty THEN Res(d, Err("stack empty", <<>>))
                ELSE Ok([d1 EXCEPT !.registers = put(@, register, reg_push(regs, top(d)))])
          [] ra = "PopRegStack" ->
                LET p == reg_pop(regs)
                    d2 == [d EXCEPT !.registers = put(@, register, p[1])]
                IN  IF p[2] = NoValue
                    THEN Res(d2, Err("stack register is empty", <<register>>))
                    ELSE Ok(push(d2, p[2]))
          [] ra = "StoreRegArray" ->
                IF empty THEN Res(d, Err("stack empty", <<>>))
                ELSE IF d1.stack = <<>> THEN Res(d1, Err("stack empty", <<>>))
                ELSE LET key == top(d)
                         value == top(d1)
                         d2 == popped(d1)
                     IN  IF key.t = "Num" /\ ~is_negative(key.n)
                         THEN Ok([d2 EXCEPT !.registers =
                                     put(@, register, array_store(regs, key.n, value))])
                         ELSE Res(d2, Err("array index must be a nonnegative integer", <<>>))
          [] ra = "LoadRegArray" ->
                IF empty THEN Res(d, Err("stack empty", <<>>))
                ELSE IF top(d).t = "Num" /\ ~is_negative(top(d).n)
                THEN Ok(push(d1, array_load(regs, top(d).n)))
                ELSE Res(d1, Err("array index must be a nonnegative integer", <<>>))

\* BigUint::to_bytes_be of a magnitude
RECURSIVE to_bytes_be(_)
to_bytes_be(n) == IF n < 256 THEN <<n>> ELSE Append(to_bytes_be(n \div 256), n % 256)

RECURSIVE print_stack(_, _)
print_stack(d, i) ==
    IF i = 0 THEN <<>> ELSE print_elem(d, d.stack[i]) \o <<10>> \o print_stack(d, i - 1)

\* The print arms if Print took the value it prints off the stack.
action_print_pops(d, op) ==
    LET empty == d.stack = <<>>
        d1 == popped(d)
    IN  CASE op = "Print" ->
                IF empty THEN Res(d, Err("stack empty", <<>>))
                ELSE Ok(write(d1, print_elem(d, top(d)) \o <<10>>))
          [] op = "PrintNoNewlinePop" ->
                IF empty THEN Res(d, Err("stack empty", <<>>))
                ELSE Ok(write(d1, print_elem(d, top(d))))
          [] op = "PrintBytesPop" ->
                IF empty THEN Res(d, Err("stack empty", <<>>))
                ELSE IF top(d).t = "Str" THEN Ok(write(d1, top(d).s))
                ELSE Ok(write(d1, to_bytes_be(Abs(to_int(top(d).n)))))
          [] op = "PrintStack" -> Ok(write(d, print_stack(d, Len(d.stack))))

\* The arms Print, PrintNoNewlinePop, PrintBytesPop and PrintStack
action_print(d, op) ==
    LET empty == d.stack = <<>>
        d1 == popped(d)
    IN  CASE op = "Print" ->
                IF empty THEN Res(d, Err("stack empty", <<>>))
                ELSE Ok(write(d, print_elem(d, top(d)) \o <<10>>))
          [] op = "PrintNoNewlinePop" ->
                IF empty THEN Res(d, Err("stack empty", <<>>))
                ELSE Ok(write(d1, print_elem(d, top(d))))
          [] op = "PrintBytesPop" ->
                IF empty THEN Res(d, Err("stack empty", <<>>))
                ELSE IF top(d).t = "Str" THEN Ok(write(d1, top(d).s))
                ELSE Ok(write(d1, to_bytes_be(Abs(to_int(top(d).n)))))
          [] op = "PrintStack" -> Ok(write(d, print_stack(d, Len(d.stack))))

\* The arm DivRem
action_divrem(d) ==
    LET g == get_two_ints(d)
        n == div_rem(g.a, g.b, d.scale)
    IN  IF g.err # "" THEN Res(d, Err(g.err, <<>>))
        ELSE IF is_zero(g.b) THEN Res(d, Err("divide by zero", <<>>))
        ELSE Ok(push(push(popped(popped(d)), Num(n[1])), Num(n[2])))

\* The arm ModExp
action_modexp(d) ==
    LET len == Len(d.stack)
        base == d.stack[len - 2]
        exponent == d.stack[len - 1]
        modulus == d.stack[len]
        d1 == popped(popped(popped(d)))
        d2 == IF ~is_integer(base.n) THEN error(d1, "warning: non-zero scale in base", <<>>) ELSE d1
        d3 == IF ~is_integer(exponent.n)
              THEN error(d2, "warning: non-zero scale in exponent", <<>>) ELSE d2
        d4 == IF ~is_integer(modulus.n)
              THEN error(d3, "warning: non-zero scale in modulus", <<>>) ELSE d3
    IN  IF len < 3 THEN Res(d, Err("stack empty", <<>>))
        ELSE IF base.t # "Num" THEN Res(d, Err("non-numeric value", <<>>))
        ELSE IF exponent.t # "Num" THEN Res(d, Err("non-numeric value", <<>>))
        ELSE IF is_negative(exponent.n) THEN Res(d, Err("negative exponent", <<>>))
        ELSE IF modulus.t # "Num" THEN Res(d, Err("non-numeric value", <<>>))
        ELSE IF is_zero(modulus.n) THEN Res(d, Err("remainder by zero", <<>>))
        ELSE Ok(push(d4, Num(modexp(base.n, exponent.n, modulus.n, d.scale))))

\* The arm Sqrt once n.sqrt(self.scale) has returned x
sqrt_result(d1, x) ==
    IF x.panic THEN Res(d1, Panic("attempt to divide by zero"))
    ELSE IF x.diverged THEN Res(d1, DCResult("Diverged"))
    ELSE Ok(push(d1, Num(x.r)))

\* The arm Sqrt if the operand were put back before an error is returned.
action_sqrt_keeps(d) ==
    IF d.stack = <<>> THEN Res(d, Err("stack empty", <<>>))
    ELSE IF top(d).t = "Str" THEN Res(d, Err("square root of nonnumeric attempted", <<>>))
    ELSE IF is_negative(top(d).n) THEN Res(d, Err("square root of negative number", <<>>))
    ELSE IF is_zero(top(d).n) THEN Ok(push(popped(d), Num(top(d).n)))
    ELSE sqrt_result(popped(d), sqrt(top(d).n, d.scale))

\* The arm Sqrt
action_sqrt(d) ==
    IF d.stack = <<>> THEN Res(d, Err("stack empty", <<>>))
    ELSE IF top(d).t = "Str"
    THEN Res(popped(d), Err("square root of nonnumeric attempted", <<>>))
    ELSE IF is_negative(top(d).n)
    THEN Res(popped(d), Err("square root of negative number", <<>>))
    ELSE IF is_zero(top(d).n) THEN Ok(push(popped(d), Num(top(d).n)))
    ELSE sqrt_result(popped(d), sqrt(top(d).n, d.scale))

\* slice::rotate_left(1) and rotate_right(1) of stack[start..] (start from 0)
rotate(stack, start, left) ==
    LET len == Len(stack)
    IN  [i \in 1..len |->
            IF i <= start THEN stack[i]
            ELSE IF left THEN (IF i = len THEN stack[start + 1] ELSE stack[i + 1])
            ELSE (IF i = start + 1 THEN stack[len] ELSE stack[i - 1])]

\* The arm Rotate
action_rotate(d) ==
    LET d1 == popped(d)
        len == Len(d1.stack)
        n == change_shift(top(d).n, 0).value
        start == IF Abs(n) <= 1 THEN len - 1
                 ELSE IF Abs(n) >= len THEN 0
                 ELSE len - Abs(n)
    IN  IF d.stack = <<>> THEN Res(d, Err("stack empty", <<>>))
        ELSE IF top(d).t = "Num" /\ len >= 2
        THEN Ok([d1 EXCEPT !.stack = rotate(@, start, n > 0)])
        ELSE Ok(d1)

\* The arms SetInputRadix, SetOutputRadix and SetPrecision with no upper limit
\* on a radix.
action_set_any_radix(d, op) ==
    LET d1 == popped(d)
        n == top(d).n
        isNum == top(d).t = "Num"
    IN  IF d.stack = <<>> THEN Res(d, Err("stack empty", <<>>))
        ELSE CASE op = "SetInputRadix" ->
                    IF isNum /\ to_u32(n) >= 2
                    THEN Ok([d1 EXCEPT !.iradix = to_u32(n)])
                    ELSE Res(d1, Err("input base must be a number between 2 and 16 (inclusive)", <<>>))
               [] op = "SetOutputRadix" ->
                    IF isNum /\ to_u32(n) >= 2
                    THEN Ok([d1 EXCEPT !.oradix = to_u32(n)])
                    ELSE Res(d1, Err("output base must be a number between 2 and 16 (inclusive)", <<>>))
               [] op = "SetPrecision" ->
                    IF isNum /\ ~is_negative(n)
                    THEN Ok([d1 EXCEPT !.scale = to_u32(n)])
                    ELSE Res(d1, Err("scale must be a nonnegative number", <<>>))

\* The arms SetInputRadix, SetOutputRadix and SetPrecision
action_set(d, op) ==
    LET d1 == popped(d)
        n == top(d).n
        isNum == top(d).t = "Num"
    IN  IF d.stack = <<>> THEN Res(d, Err("stack empty", <<>>))
        ELSE CASE op = "SetInputRadix" ->
                    IF isNum /\ to_u32(n) >= 2 /\ to_u32(n) <= 16
                    THEN Ok([d1 EXCEPT !.iradix = to_u32(n)])
                    ELSE Res(d1, Err("input base must be a number between 2 and 16 (inclusive)", <<>>))
               [] op = "SetOutputRadix" ->
                    IF isNum /\ to_u32(n) >= 2 /\ to_u32(n) <= 16
                    THEN Ok([d1 EXCEPT !.oradix = to_u32(n)])
                    ELSE Res(d1, Err("output base must be a number between 2 and 16 (inclusive)", <<>>))
               [] op = "SetPrecision" ->
                    IF isNum /\ ~is_negative(n)
                    THEN Ok([d1 EXCEPT !.scale = to_u32(n)])
                    ELSE Res(d1, Err("scale must be a nonnegative number", <<>>))

\* format!("{}", byte as char).into_bytes(): the UTF-8 encoding of U+0000..U+00FF
char_bytes(byte) ==
    IF byte < 128 THEN <<byte>> ELSE <<192 + (byte \div 64), 128 + (byte % 64)>>

\* The arm Asciify
action_asciify(d) ==
    LET d1 == popped(d)
        v == top(d)
    IN  IF d.stack = <<>> THEN Res(d, Err("stack empty", <<>>))
        ELSE IF v.t = "Str" THEN Ok(push(d1, Str(SubSeq(v.s, 1, Min(1, Len(v.s))))))
        ELSE Ok(push(d1, Str(char_bytes(Abs(to_int(v.n)) % 256))))

\* The arm QuitLevels
action_quitlevels(d) ==
    LET d1 == popped(d)
        v == top(d)
    IN  IF d.stack = <<>> THEN Res(d, Err("stack empty", <<>>))
        ELSE IF v.t = "Num" /\ is_positive(v.n) THEN Res(d1, QuitLevels(to_u32(v.n)))
        ELSE Res(d1, Err("Q command requires a number >= 1", <<>>))

\* The arms NumDigits and NumFrxDigits
action_digits(d, op) ==
    LET d1 == popped(d)
        v == top(d)
    IN  IF d.stack = <<>> THEN Res(d, Err("stack empty", <<>>))
        ELSE IF op = "NumDigits"
        THEN Ok(push(d1, Num(BigReal(IF v.t = "Num" THEN num_digits(v.n) ELSE Len(v.s), 0))))
        ELSE Ok(push(d1, Num(IF v.t = "Num" THEN BigReal(num_frx_digits(v.n), 0) ELSE Zero)))

\* major << 24 | minor << 16 | patch of the package version
version(major, minor, patch) == major * 16777216 + minor * 65536 + patch

\* DC4::action if PushNumber left the negative flag of the builder as it is.
action_keeps_sign(d, a) ==
    CASE a.op = "NumberChar" ->
            Ok([d EXCEPT !.current_num = number_push(@, a.c, d.iradix)])
      [] a.op = "PushNumber" ->
            Ok([push(d, number_finish(d.current_num, d.iradix))
                    EXCEPT !.current_num = [NumberDefault EXCEPT !.neg = d.current_num.neg]])
      [] a.op = "StringChar" -> Ok([d EXCEPT !.current_str = Append(@, a.c)])
      [] a.op = "PushString" -> Ok([push(d, Str(d.current_str)) EXCEPT !.current_str = <<>>])
      [] a.op = "Register" -> action_register(d, a.ra, a.c)
      [] a.op \in {"Print", "PrintNoNewlinePop", "PrintBytesPop", "PrintStack"} ->
            action_print(d, a.op)
      [] a.op \in {"Add", "Sub", "Mul", "Div", "Rem", "Exp"} -> binary_operator(d, a.op)
      [] a.op = "DivRem" -> action_divrem(d)
      [] a.op = "ModExp" -> action_modexp(d)
      [] a.op = "Sqrt" -> action_sqrt(d)
      [] a.op = "ClearStack" -> Ok([d EXCEPT !.stack = <<>>])
      [] a.op = "Dup" -> Ok(IF d.stack # <<>> THEN push(d, top(d)) ELSE d)
      [] a.op = "Swap" ->
            IF Len(d.stack) >= 2
            THEN Ok([d EXCEPT !.stack[Len(d.stack)] = d.stack[Len(d.stack) - 1],
                              !.stack[Len(d.stack) - 1] = d.stack[Len(d.stack)]])
            ELSE Res(d, Err("stack empty", <<>>))
      [] a.op = "Rotate" -> action_rotate(d)
      [] a.op \in {"SetInputRadix", "SetOutputRadix", "SetPrecision"} -> action_set(d, a.op)
      [] a.op = "LoadInputRadix" -> Ok(push(d, Num(BigReal(d.iradix, 0))))
      [] a.op = "LoadOutputRadix" -> Ok(push(d, Num(BigReal(d.oradix, 0))))
      [] a.op = "LoadPrecision" -> Ok(push(d, Num(BigReal(d.scale, 0))))
      [] a.op = "Asciify" -> action_asciify(d)
      [] a.op = "ExecuteMacro" ->
            IF d.stack = <<>> THEN Res(d, Err("stack empty", <<>>))
            ELSE IF top(d).t = "Str" THEN Res(popped(d), Macro(actions(top(d).s)))
            ELSE Ok(d)
      [] a.op = "Input" ->
            IF d.stdin = <<>> THEN Res(d, Macro(actions(<<>>)))
            ELSE Res([d EXCEPT !.stdin = Tail(@)], Macro(actions(Head(d.stdin))))
      [] a.op = "Quit" -> Res(d, Terminate(2))
      [] a.op = "QuitLevels" -> action_quitlevels(d)
      [] a.op \in {"NumDigits", "NumFrxDigits"} -> action_digits(d, a.op)
      [] a.op = "StackDepth" -> Ok(push(d, Num(BigReal(Len(d.stack), 0))))
      [] a.op = "ShellExec" -> Res(d, Err("running shell commands is not supported", <<>>))
      [] a.op = "Version" ->
            Ok(push(push(d, Num(BigReal(version(1, 0, 0), 0))), Str(Bytes(<<"d", "c", "4">>))))
      [] a.op = "Eof" -> Ok(d)
      [] a.op = "Unimplemented" -> Res(d, Err("unimplemented", <<a.c>>))
      [] a.op = "InputError" -> Res(d, Err(a.ra, <<>>))

\* DC4::action: [d, r], the evaluator after the action and the Result.
action(d, a) ==
    CASE a.op = "NumberChar" ->
            Ok([d EXCEPT !.current_num = number_push(@, a.c, d.iradix)])
      [] a.op = "PushNumber" ->
            Ok([push(d, number_finish(d.current_num, d.iradix))
                    EXCEPT !.current_num = NumberDefault])
      [] a.op = "StringChar" -> Ok([d EXCEPT !.current_str = Append(@, a.c)])
      [] a.op = "PushString" -> Ok([push(d, Str(d.current_str)) EXCEPT !.current_str = <<>>])
      [] a.op = "Register" -> action_register(d, a.ra, a.c)
      [] a.op \in {"Print", "PrintNoNewlinePop", "PrintBytesPop", "PrintStack"} ->
            action_print(d, a.op)
      [] a.op \in {"Add", "Sub", "Mul", "Div", "Rem", "Exp"} -> binary_operator(d, a.op)
      [] a.op = "DivRem" -> action_divrem(d)
      [] a.op = "ModExp" -> action_modexp(d)
      [] a.op = "Sqrt" -> action_sqrt(d)
      [] a.op = "ClearStack" -> Ok([d EXCEPT !.stack = <<>>])
      [] a.op = "Dup" -> Ok(IF d.stack # <<>> THEN push(d, top(d)) ELSE d)
      [] a.op = "Swap" ->
            IF Len(d.stack) >= 2
            THEN Ok([d EXCEPT !.stack[Len(d.stack)] = d.stack[Len(d.stack) - 1],
                              !.stack[Len(d.stack) - 1] = d.stack[Len(d.stack)]])
            ELSE Res(d, Err("stack empty", <<>>))
      [] a.op = "Rotate" -> action_rotate(d)
      [] a.op \in {"SetInputRadix", "SetOutputRadix", "SetPrecision"} -> action_set(d, a.op)
      [] a.op = "LoadInputRadix" -> Ok(push(d, Num(BigReal(d.iradix, 0))))
      [] a.op = "LoadOutputRadix" -> Ok(push(d, Num(BigReal(d.oradix, 0))))
      [] a.op = "LoadPrecision" -> Ok(push(d, Num(BigReal(d.scale, 0))))
      [] a.op = "Asciify" -> action_asciify(d)
      [] a.op = "ExecuteMacro" ->
            IF d.stack = <<>> THEN Res(d, Err("stack empty", <<>>))
            ELSE IF top(d).t = "Str" THEN Res(popped(d), Macro(actions(top(d).s)))
            ELSE Ok(d)
      [] a.op = "Input" ->
            IF d.stdin = <<>> THEN Res(d, Macro(actions(<<>>)))
            ELSE Res([d EXCEPT !.stdin = Tail(@)], Macro(actions(Head(d.stdin))))
      [] a.op = "Quit" -> Res(d, Terminate(2))
      [] a.op = "QuitLevels" -> action_quitlevels(d)
      [] a.op \in {"NumDigits", "NumFrxDigits"} -> action_digits(d, a.op)
      [] a.op = "StackDepth" -> Ok(push(d, Num(BigReal(Len(d.stack), 0))))
      [] a.op = "ShellExec" -> Res(d, Err("running shell commands is not supported", <<>>))
      [] a.op = "Version" ->
            Ok(push(push(d, Num(BigReal(version(1, 0, 0), 0))), Str(Bytes(<<"d", "c", "4">>))))
      [] a.op = "Eof" -> Ok(d)
      [] a.op = "Unimplemented" -> Res(d, Err("unimplemented", <<a.c>>))
      [] a.op = "InputError" -> Res(d, Err(a.ra, <<>>))

(***************************************************************************)
(* DC4::program and DC4::run_macro (src/src/state.rs).  A machine is the   *)
(* record [dc, frames, ip, status, result]; a frame is one call of         *)
(* run_macro with its locals text, pos and tail_recursion_depth.           *)
(* u32 values that wrapped below zero are held as negative integers        *)
(* (v - 2^32), so that UGt is the unsigned comparison.                     *)
(***************************************************************************)
MaxFrames == 5

MaxTail == 4

MaxRefFrames == 8

Frame(text) == [text |-> text, pos |-> 0, tail_recursion_depth |-> 0]

\* text.get(pos): NoAction for None
text_get(text, pos) == IF pos < Len(text) THEN text[pos + 1] ELSE NoAction

\* a > b on u32
UGt(a, b) == IF (a < 0) = (b < 0) THEN a > b ELSE a < 0

\* quit_handler with the count passed up one too high (n - t in place of n - t - 1).
quit_handler_keeps_level(r, tail_recursion_depth, checks) ==
    IF r.n = 0 /\ checks
    THEN [does |-> "panic", r |-> Panic("attempt to subtract with overflow")]
    ELSE IF UGt(r.n - 1, tail_recursion_depth)
    THEN [does |-> "return", r |-> [r EXCEPT !.n = r.n - tail_recursion_depth]]
    ELSE IF r.n - 1 = tail_recursion_depth
    THEN [does |-> "return", r |-> Continue]
    ELSE IF r.n # 0 /\ tail_recursion_depth > 0
    THEN [does |-> "return", r |-> Continue]
    ELSE [does |-> "fall", r |-> Continue]

\* quit_handler without its third branch (the unrolling of the virtual frames).
quit_handler_no_unroll(r, tail_recursion_depth, checks) ==
    IF r.n = 0 /\ checks
    THEN [does |-> "panic", r |-> Panic("attempt to subtract with overflow")]
    ELSE IF UGt(r.n - 1, tail_recursion_depth)
    THEN [does |-> "return", r |-> [r EXCEPT !.n = r.n - tail_recursion_depth - 1]]
    ELSE IF r.n - 1 = tail_recursion_depth
    THEN [does |-> "return", r |-> Continue]
    ELSE [does |-> "fall", r |-> Continue]

\* quit_handler that hands Terminate up unchanged from every frame.
quit_handler_unwinds(r, tail_recursion_depth, checks) ==
    IF r.kind = "Terminate" THEN [does |-> "return", r |-> r]
    ELSE IF r.n = 0 /\ checks
    THEN [does |-> "panic", r |-> Panic("attempt to subtract with overflow")]
    ELSE IF UGt(r.n - 1, tail_recursion_depth)
    THEN [does |-> "return", r |-> [r EXCEPT !.n = r.n - tail_recursion_depth - 1]]
    ELSE IF r.n - 1 = tail_recursion_depth
    THEN [does |-> "return", r |-> Continue]
    ELSE IF r.n # 0 /\ tail_recursion_depth > 0
    THEN [does |-> "return", r |-> Continue]
    ELSE [does |-> "fall", r |-> Continue]

\* quit_handler!: what the frame does with QuitLevels(n) or Terminate(n):
\* "return" r, "fall" through to the next action, or "panic" (n - 1 overflows).
quit_handler(r, tail_recursion_depth, checks) ==
    IF r.n = 0 /\ checks
    THEN [does |-> "panic", r |-> Panic("attempt to subtract with overflow")]
    ELSE IF UGt(r.n - 1, tail_recursion_depth)
    THEN [does |-> "return", r |-> [r EXCEPT !.n = r.n - tail_recursion_depth - 1]]
    ELSE IF r.n - 1 = tail_recursion_depth
    THEN [does |-> "return", r |-> Continue]
    ELSE IF r.n # 0 /\ tail_recursion_depth > 0
    THEN [does |-> "return", r |-> Continue]
    ELSE [does |-> "fall", r |-> Continue]

\* The match on result: in program when no frame is left (state.rs 50-59),
\* else in the innermost run_macro (state.rs 107-115).  A frame that returns
\* hands its value to the match of its caller.
RECURSIVE deliver(_, _, _)
deliver(m, r, checks) ==
    IF r.kind \in {"Panic", "Diverged"} THEN [m EXCEPT !.status = "panicked", !.result = r]
    ELSE IF r.kind = "Continue" THEN m
    ELSE IF r.kind = "Err" THEN [m EXCEPT !.dc = error(@, r.msg, r.b)]
    ELSE IF m.frames = <<>>
    THEN IF r.kind = "QuitLevels" THEN m
         ELSE [m EXCEPT !.status = "done", !.result = r]
    ELSE LET n == Len(m.frames)
             h == quit_handler(r, m.frames[n].tail_recursion_depth, checks)
         IN  CASE h.does = "panic" -> [m EXCEPT !.status = "panicked", !.result = h.r]
               [] h.does = "fall" -> m
               [] h.does = "return" ->
                    deliver([m EXCEPT !.frames = SubSeq(@, 1, n - 1)], h.r, checks)

\* run_macro once self.action has returned ar, when every macro invoked gets
\* a frame of its own (lines 78-84 left out).
macro_result_nested(m, ar, checks) ==
    IF ar.r.kind = "Macro"
    THEN [m EXCEPT !.dc = ar.d, !.r = ar.r, !.frames = Append(@, Frame(ar.r.text))]
    ELSE deliver([m EXCEPT !.dc = ar.d, !.r = ar.r], ar.r, checks)

\* run_macro once self.action has returned ar (state.rs 77-115); pos is
\* already incremented.
macro_result(m, ar, checks) ==
    LET n == Len(m.frames)
        f == m.frames[n]
    IN  IF ar.r.kind = "Macro"
        THEN IF text_get(f.text, f.pos).op = "Eof"
             THEN [m EXCEPT !.dc = ar.d, !.r = ar.r,
                            !.frames[n] = [text |-> ar.r.text, pos |-> 0,
                                           tail_recursion_depth |-> f.tail_recursion_depth + 1]]
             ELSE [m EXCEPT !.dc = ar.d, !.r = ar.r, !.frames = Append(@, Frame(ar.r.text))]
        ELSE deliver([m EXCEPT !.dc = ar.d, !.r = ar.r], ar.r, checks)

\* The action the innermost frame is at: text.get(pos)
current(m) == text_get(m.frames[Len(m.frames)].text, m.frames[Len(m.frames)].pos)

advance(m) == [m EXCEPT !.frames[Len(m.frames)].pos = @ + 1, !.r = Continue]

leave(m) == [m EXCEPT !.frames = SubSeq(@, 1, Len(@) - 1)]

\* One iteration of the loop of run_macro in the innermost frame when every
\* macro invoked gets a frame of its own.
run_macro_nested(m, checks) ==
    IF current(m) = NoAction THEN advance(m)
    ELSE IF current(m).op = "Eof" THEN deliver(leave(advance(m)), Continue, checks)
    ELSE macro_result_nested(advance(m), action(m.dc, current(m)), checks)

\* One iteration of the loop of run_macro in the innermost frame.
run_macro(m, checks) ==
    IF current(m) = NoAction THEN advance(m)
    ELSE IF current(m).op = "Eof" THEN deliver(leave(advance(m)), Continue, checks)
    ELSE macro_result(advance(m), action(m.dc, current(m)), checks)

\* program once self.action has returned ar (state.rs 47-59).
program_result(m, ar, checks) ==
    IF ar.r.kind = "Macro"
    THEN [m EXCEPT !.dc = ar.d, !.r = ar.r, !.frames = Append(@, Frame(ar.r.text))]
    ELSE deliver([m EXCEPT !.dc = ar.d, !.r = ar.r], ar.r, checks)

\* One iteration of the loop of program: the next action of the input.
program(m, inp, checks) ==
    program_result([m EXCEPT !.ip = @ + 1], action(m.dc, inp[m.ip + 1]), checks)

\* The bounds of the model on the frames of a machine.
within(m, maxFrames) ==
    /\ Len(m.frames) <= maxFrames
    /\ \A i \in 1..Len(m.frames) : m.frames[i].tail_recursion_depth <= MaxTail

(***************************************************************************)
(* The inputs.  Three macros are stored in the registers c, b and a, each  *)
(* a first command followed by an optional print; then the main line runs. *)
(* Further inputs are programs of tests/testlib.rs and two endless loops.  *)
(***************************************************************************)
BodiesC ==
    { x \o y : x \in { <<"q">>, <<"1", "Q">>, <<"2", "Q">>, <<"3", "Q">>, <<".", "5", "Q">>,
                       <<"+">>, <<"7">> },
               y \in { <<>>, <<"1", "p">> } }

BodiesB ==
    { x \o y : x \in { <<"l", "c", "x">>, <<"0", " ", "0", "=", "c">>, <<"q">>, <<"2", "Q">>,
                       <<"?">> },
               y \in { <<>>, <<"2", "p">> } }

BodiesA ==
    { x \o y : x \in { <<"l", "b", "x">>, <<"l", "c", "x">> },
               y \in { <<>>, <<"3", "p">> } }

Mains ==
    { <<"l", "a", "x", "4", "p">>, <<"l", "b", "x", "4", "p">>, <<"l", "c", "x", "4", "p">>,
      <<"1", "Q", "l", "a", "x", "4", "p">>, <<"+", "l", "c", "x", "4", "p">> }

StoredPrograms ==
    { <<"[">> \o c \o <<"]", "s", "c", "[">> \o b \o <<"]", "s", "b", "[">> \o a
          \o <<"]", "s", "a">> \o main :
        c \in BodiesC, b \in BodiesB, a \in BodiesA, main \in Mains }

TestPrograms ==
    { <<"[", "[", "[", "[", "q", "]", "x", "1", "p", "]", "x", "2", "p", "]", "x", "3", "p",
        "]", "x", "4", "p">>,
      <<"[", "q", "]", "s", "1", " ", "[", "l", "1", "x", "]", "s", "2", " ",
        "[", "l", "2", "x", "]", "s", "3", " ", "l", "3", "x", " ", "[", "t", "]", "p", " ",
        "l", "2", "x", " ", "[", "u", "]", "p", " ", "l", "1", "x", " ", "[", "o", "]", "p">>,
      <<"5", "[", "2", "Q", "]", "s", "q", "[", "d", "3", "=", "q", "1", "-", "d", "d", "n",
        "0", "<", "x", "]", "d", "s", "x", "x", "[", "d", "o", "n", "e", "]", "p">>,
      <<"1", "9", " ", "2", "0", " ", "2", "1", " ", "2", "2", "[", "2", "Q", "]", "s", "q",
        "[", "z", "1", "=", "q", "+", "0", "_", "=", "x", "]", "d", "s", "x", "x", "f">>,
      <<"1", " ", "1", " ", "=", "x", " ", "2", " ", "f">>,
      <<"[", "[", "[", "[", "3", "Q", "0", "p", "]", "x", "1", "p", "]", "x", "2", "p", "]",
        "x", "3", "p", "]", "x", "4", "p">>,
      <<"[", "l", "a", "x", "]", "s", "a", "l", "a", "x">>,
      <<"[", "l", "a", "x", "1", "p", "]", "s", "a", "l", "a", "x">> }

Programs == { Bytes(s) : s \in StoredPrograms \cup TestPrograms }

\* What standard input holds: two lines.
Stdin == << Bytes(<<"l", "c", "x", "\n">>), Bytes(<<"9", "p", "\n">>) >>

(***************************************************************************)
(* The run of DC4::program over one input.                                 *)
(***************************************************************************)
\* r is the value self.action returned in the step just taken.
Machine ==
    [dc |-> dc, frames |-> frames, ip |-> ip, status |-> status, result |-> result,
     r |-> last.r]

Machine0 ==
    [dc |-> new(Stdin), frames |-> <<>>, ip |-> 0, status |-> "running", result |-> Continue,
     r |-> Continue]

Step(kind, a, r, m) == [kind |-> kind, a |-> a, r |-> r, m |-> m]

\* The machine becomes m by a step of the given kind on action a.
Becomes(m, kind, a) ==
    /\ dc' = m.dc
    /\ frames' = m.frames
    /\ ip' = m.ip
    /\ status' = m.status
    /\ result' = m.result
    /\ last' = Step(kind, a, m.r, Machine)

Init ==
    /\ input \in { ReaderActions(p) : p \in Programs }
    /\ overflow_checks \in BOOLEAN
    /\ dc = Machine0.dc
    /\ frames = <<>>
    /\ ip = 0
    /\ status = "running"
    /\ result = Continue
    /\ last = Step("none", NoAction, Continue, Machine0)
    /\ ref = Machine0
    /\ phase = "run"
    /\ reader = ReaderParser(<<>>)
    /\ trace = <<>>

\* program takes the next action of the input.
ProgramStep ==
    /\ phase = "run" /\ status = "running"
    /\ frames = <<>>
    /\ ip < Len(input)
    /\ Becomes(program(Machine, input, overflow_checks), "program", input[ip + 1])
    /\ UNCHANGED <<input, overflow_checks, ref, phase, reader, trace>>

\* The input is exhausted: program returns Continue.
ProgramEnd ==
    /\ phase = "run" /\ status = "running"
    /\ frames = <<>>
    /\ ip = Len(input)
    /\ Becomes([Machine EXCEPT !.status = "done", !.result = Continue, !.r = Continue],
               "end", NoAction)
    /\ UNCHANGED <<input, overflow_checks, ref, phase, reader, trace>>

\* The step to m is taken when m is within the bounds.
Bounded(m, kind, a) == within(m, MaxFrames) /\ Becomes(m, kind, a)

\* The innermost run_macro takes the next action of its text.
MacroStep ==
    /\ phase = "run" /\ status = "running"
    /\ frames # <<>>
    /\ Bounded(run_macro(Machine, overflow_checks), "macro", current(Machine))
    /\ UNCHANGED <<input, overflow_checks, ref, phase, reader, trace>>

Next == ProgramStep \/ ProgramEnd \/ MacroStep

Spec == Init /\ [][Next]_vars

(***************************************************************************)
(* The same input run once more with every macro in a frame of its own,    *)
(* after the run above has ended.                                          *)
(***************************************************************************)
RefBecomes(m) == within(m, MaxRefFrames) /\ ref' = m

RefStep ==
    /\ phase = "run" /\ status # "running"
    /\ ref.status = "running"
    /\ RefBecomes(IF ref.frames # <<>> THEN run_macro_nested(ref, overflow_checks)
                  ELSE IF ref.ip < Len(input) THEN program(ref, input, overflow_checks)
                  ELSE [ref EXCEPT !.status = "done", !.result = Continue])
    /\ UNCHANGED <<dc, frames, input, ip, status, result, overflow_checks, last, phase, reader, trace>>

TailNext == ProgramStep \/ ProgramEnd \/ MacroStep \/ RefStep

TailSpec == Init /\ [][TailNext]_vars

(***************************************************************************)
(* One action of DC4::action applied to an evaluator drawn from a bounded  *)
(* set: stacks of up to MaxStack values, four contents of register x and   *)
(* two scales.                                                             *)
(***************************************************************************)
MaxStack == 3

EvalValues ==
    { Num(BigReal(-4, 0)), Num(BigReal(-5, 1)), Num(Zero), Num(One), Num(BigReal(15, 1)),
      Num(BigReal(2, 0)), Num(BigReal(3, 0)), Str(Bytes(<<"1", "p">>)) }

EvalStacks == UNION { [1..n -> EvalValues] : n \in 0..MaxStack }

EvalRegisters ==
    { <<>>,
      put(<<>>, 120, reg_push(<<>>, Str(Bytes(<<"2", "p">>)))),
      put(<<>>, 120, reg_push(<<>>, Num(One))),
      put(<<>>, 120, array_store(<<>>, One, Num(BigReal(2, 0)))) }

EvalScales == {0, 2}

ArithActions ==
    { Action(op) : op \in {"Add", "Sub", "Mul", "Div", "Rem", "DivRem", "Exp", "ModExp", "Sqrt"} }

RegisterActions ==
    { Register(ra, 120) : ra \in Comparisons \cup
        {"Store", "Load", "PushRegStack", "PopRegStack", "StoreRegArray", "LoadRegArray"} }

PrintActions ==
    { Action(op) : op \in {"Print", "PrintNoNewlinePop", "PrintBytesPop", "PrintStack"} }

StackActions ==
    { Action(op) : op \in {"ClearStack", "Dup", "Swap", "Rotate", "StackDepth"} }

ModeActions ==
    { Action(op) : op \in {"SetInputRadix", "SetOutputRadix", "SetPrecision",
                           "LoadInputRadix", "LoadOutputRadix", "LoadPrecision"} }

MiscActions ==
    { Action(op) : op \in {"Asciify", "ExecuteMacro", "Input", "Quit", "QuitLevels", "NumDigits",
                           "NumFrxDigits", "ShellExec", "Version", "Eof", "PushNumber",
                           "PushString"} }
        \cup { ActionChar("NumberChar", c) : c \in {95, 49, 46} }
        \cup { ActionChar("StringChar", 97), ActionChar("Unimplemented", 36),
               InputError("UnexpectedEof") }

EvalInit ==
    /\ \E st \in EvalStacks, rg \in EvalRegisters, sc \in EvalScales :
          dc = [new(Stdin) EXCEPT !.stack = st, !.registers = rg, !.scale = sc]
    /\ frames = <<>>
    /\ input = <<>>
    /\ ip = 0
    /\ status = "running"
    /\ result = Continue
    /\ overflow_checks = FALSE
    /\ last = Step("none", NoAction, Continue, Machine0)
    /\ ref = Machine0
    /\ phase = "ready"
    /\ reader = ReaderParser(<<>>)
    /\ trace = <<>>

Applied(a, ar) ==
    /\ dc' = ar.d
    /\ last' = Step("eval", a, ar.r, Machine)
    /\ phase' = "applied"
    /\ UNCHANGED <<frames, input, ip, status, result, overflow_checks, ref, reader, trace>>

Apply(a) == phase = "ready" /\ Applied(a, action(dc, a))

EvalArith == \E a \in ArithActions : Apply(a)

EvalRegister == \E a \in RegisterActions : Apply(a)

EvalPrint == \E a \in PrintActions : Apply(a)

EvalStack == \E a \in StackActions : Apply(a)

EvalMode == \E a \in ModeActions : Apply(a)

EvalMisc == \E a \in MiscActions : Apply(a)

EvalNext == EvalArith \/ EvalRegister \/ EvalPrint \/ EvalStack \/ EvalMode \/ EvalMisc

EvalSpec == EvalInit /\ [][EvalNext]_vars

(***************************************************************************)
(* Properties of one action of the evaluator (EvalSpec).  last.m.dc is the *)
(* evaluator before the action last.a, dc the evaluator after it and       *)
(* last.r what the action returned.                                        *)
(***************************************************************************)
Before == last.m.dc.stack

\* The stack st without its n topmost values.
Drop(st, n) == SubSeq(st, 1, Len(st) - n)

Errored == last.kind = "eval" /\ last.r.kind = "Err"

\* How many operands an action that returns an error has taken off the
\* stack st by then.
Taken(a, st) ==
    LET len == Len(st)
    IN  CASE a.op \in {"Sqrt", "SetInputRadix", "SetOutputRadix", "SetPrecision", "QuitLevels"} ->
                Min(len, 1)
          [] a.op = "Register" /\ a.ra = "LoadRegArray" -> Min(len, 1)
          [] a.op = "Register" /\ a.ra = "StoreRegArray" -> Min(len, 2)
          [] a.op = "Register" /\ a.ra \in Comparisons ->
                IF len >= 2 /\ st[len].t = "Num" /\ st[len - 1].t = "Num" THEN 2 ELSE 0
          [] OTHER -> 0

Less(x, y) == x.value * Pow10(y.shift) < y.value * Pow10(x.shift)

\* x OP y for the comparison op.
Holds(op, x, y) ==
    CASE op = "Lt" -> Less(x, y)
      [] op = "Gt" -> Less(y, x)
      [] op = "Le" -> ~Less(y, x)
      [] op = "Ge" -> ~Less(x, y)
      [] op = "Eq" -> ~Less(x, y) /\ ~Less(y, x)
      [] op = "Ne" -> Less(x, y) \/ Less(y, x)

\* A comparison was applied to two numbers while register x held a macro.
Compared ==
    /\ last.kind = "eval"
    /\ last.a.op = "Register" /\ last.a.ra \in Comparisons
    /\ Len(Before) >= 2
    /\ Before[Len(Before)].t = "Num" /\ Before[Len(Before) - 1].t = "Num"
    /\ reg_value(get(last.m.dc.registers, last.a.c)).t = "Str"

\* C7 as stated: a comparison on two numbers pops both and runs the macro in
\* the register if and only if (second from top) OP (top) holds.
C7_SecondOpTop ==
    Compared =>
        /\ dc.stack = Drop(Before, 2)
        /\ (last.r.kind = "Macro") <=>
              Holds(last.a.ra, Before[Len(Before) - 1].n, Before[Len(Before)].n)

\* C7, amended: a comparison on two numbers pops both and runs the macro in
\* the register if and only if (top) OP (second from top) holds; for <r, if
\* and only if the top is less than the second from top.
C7_TopOpSecond ==
    Compared =>
        /\ dc.stack = Drop(Before, 2)
        /\ (last.r.kind = "Macro") <=>
              Holds(last.a.ra, Before[Len(Before)].n, Before[Len(Before) - 1].n)

\* <x has run the macro with 2 on top of 3.
C7_Witness ==
    /\ Compared
    /\ last.a.ra = "Lt"
    /\ Before[Len(Before)].n = BigReal(2, 0)
    /\ Before[Len(Before) - 1].n = BigReal(3, 0)
    /\ last.r.kind = "Macro"

Arithmetic == {"Add", "Sub", "Mul", "Div", "Rem", "DivRem", "Exp", "ModExp"}

\* C8: whenever Add, Sub, Mul, Div, Rem, DivRem, Exp or ModExp returns an
\* error, no operand is popped: the stack is exactly as before.
C8_ArithmeticErrorKeepsStack ==
    (Errored /\ last.a.op \in Arithmetic) => dc.stack = Before

\* A division by zero has returned its error with both operands present.
C8_Witness ==
    /\ Errored
    /\ last.a.op = "Div"
    /\ last.r.msg = "divide by zero"
    /\ Len(dc.stack) >= 2

\* Sqrt was applied with a negative number on top.
SqrtOfNegative ==
    /\ last.kind = "eval"
    /\ last.a.op = "Sqrt"
    /\ Before # <<>>
    /\ Before[Len(Before)].t = "Num"
    /\ Before[Len(Before)].n.value < 0

\* C9 as stated: Sqrt with a negative number on top reports square root of
\* negative number and leaves the stack unchanged.
C9_NegativeStaysOnStack ==
    SqrtOfNegative =>
        /\ last.r = Err("square root of negative number", <<>>)
        /\ dc.stack = Before

\* C9, amended: Sqrt with a negative number on top reports square root of
\* negative number and the negative number is removed from the stack; the
\* values below it are unchanged.
C9_NegativeIsPopped ==
    SqrtOfNegative =>
        /\ last.r = Err("square root of negative number", <<>>)
        /\ dc.stack = Drop(Before, 1)

\* Sqrt has failed on -4 above two other values.
C9_Witness ==
    /\ SqrtOfNegative
    /\ Before[Len(Before)].n = BigReal(-4, 0)
    /\ Len(dc.stack) = 2

\* An array command found its operands: a key for `;r`, a key and a value
\* for `:r`.
ArrayCommand ==
    /\ last.kind = "eval" /\ last.a.op = "Register"
    /\ \/ last.a.ra = "LoadRegArray" /\ Len(Before) >= 1
       \/ last.a.ra = "StoreRegArray" /\ Len(Before) >= 2

\* The key is a string, a negative number or a number with shift > 0.
BadKey(key) == key.t = "Str" \/ is_negative(key.n) \/ key.n.shift > 0

\* C20: `:r` and `;r` with a key that is a string, a negative number or a
\* number with a fractional part return the array index error and neither
\* store nor load.
C20_ArrayKeyIsNonNegativeInteger ==
    (ArrayCommand /\ BadKey(Before[Len(Before)])) =>
        /\ last.r = Err("array index must be a nonnegative integer", <<>>)
        /\ dc.registers = last.m.dc.registers
        /\ Len(dc.stack) < Len(Before)

(***************************************************************************)
(* Properties of the run of a program (Spec, TailSpec).  last.m is the     *)
(* machine before the step just taken, last.a the action it executed and   *)
(* last.r what self.action returned for it.                                *)
(***************************************************************************)
\* The macro levels of a sequence of frames: a frame counts once for its
\* text and once for each tail call that replaced its text.
RECURSIVE levels(_)
levels(fs) ==
    IF fs = <<>> THEN 0
    ELSE levels(SubSeq(fs, 1, Len(fs) - 1)) + fs[Len(fs)].tail_recursion_depth + 1

\* The longest prefix of fs that has at most v levels.
RECURSIVE upto(_, _)
upto(fs, v) ==
    IF fs = <<>> \/ levels(fs) <= v THEN fs ELSE upto(SubSeq(fs, 1, Len(fs) - 1), v)

NonTail(fs) == \A i \in 1..Len(fs) : fs[i].tail_recursion_depth = 0

\* The actions that can invoke a macro.
Invokes(a) ==
    \/ a.op \in {"ExecuteMacro", "Input"}
    \/ a.op = "Register" /\ a.ra \in Comparisons

\* The frame f is just past an action that invoked a macro.
Resumes(f) == f.pos >= 1 /\ Invokes(text_get(f.text, f.pos - 1))

\* The run of the program has ended and so has the run without tail calls.
BothEnded == phase = "run" /\ status # "running" /\ ref.status # "running"

\* C2: a program run with tail-call replacement ends with the same output,
\* stack, registers, modes and control result as the same program run with
\* every macro invocation in a frame of its own.
C2_TailEquivalence ==
    BothEnded =>
        /\ dc.out = ref.dc.out
        /\ dc.stack = ref.dc.stack
        /\ dc.registers = ref.dc.registers
        /\ <<dc.scale, dc.iradix, dc.oradix>> = <<ref.dc.scale, ref.dc.iradix, ref.dc.oradix>>
        /\ dc = ref.dc
        /\ status = ref.status
        /\ result = ref.result

\* Both runs of the accumulation loop of test_quitlevels2 (2Q inside a body
\* reached by tail calls) have ended, with 82 printed.
C2_Witness ==
    /\ BothEnded
    /\ status = "done"
    /\ Len(input) > 0 /\ input[1] = ActionChar("NumberChar", 49)
    /\ dc.out = <<[kind |-> "out", msg |-> "", b |-> <<56, 50, 10>>]>>

\* C3: Q at top level leaves program running at the next action of the
\* input; Q with count n >= 1 executed inside k nested frames, none of them
\* reached by a tail call, ends the min(n, k) innermost of them, and the
\* frame that resumes is just past the action that invoked its macro.
C3_QuitSaturation ==
    /\ (last.kind = "program" /\ last.a.op = "QuitLevels") =>
            /\ status = "running"
            /\ frames = <<>>
            /\ ip = last.m.ip + 1
    /\ (/\ last.kind = "macro"
        /\ last.r.kind = "QuitLevels"
        /\ last.r.n >= 1
        /\ NonTail(last.m.frames)) =>
            LET k == Len(last.m.frames)
                e == Min(last.r.n, k)
            IN  /\ status = "running"
                /\ ip = last.m.ip
                /\ frames = SubSeq(last.m.frames, 1, k - e)
                /\ k - e >= 1 => Resumes(frames[k - e])

\* 2Q was executed three frames deep and the outermost frame resumes.
C3_Witness ==
    /\ last.kind = "macro"
    /\ last.r = QuitLevels(2)
    /\ NonTail(last.m.frames)
    /\ Len(last.m.frames) = 3
    /\ Len(frames) = 1

\* The step just taken executed q.
Quit == last.kind \in {"program", "macro"} /\ last.a.op = "Quit"

\* C4: q at top level or in a macro invoked directly from the top level
\* makes program return Terminate; q at macro level d >= 2 ends the two
\* innermost levels, and every level under them that is at the end of its
\* body, and the run continues in what is left.
C4_QuitEndsTwoLevels ==
    Quit =>
        LET d == levels(last.m.frames)
        IN  IF d <= 1
            THEN status = "done" /\ result.kind = "Terminate"
            ELSE /\ status = "running"
                 /\ ip = last.m.ip
                 /\ frames = upto(last.m.frames, d - 2)
                 /\ frames # <<>> => Resumes(frames[Len(frames)])

\* q was executed at level 3 or deeper, and a macro frame resumes.
C4_Witness ==
    /\ Quit
    /\ levels(last.m.frames) >= 3
    /\ frames # <<>>
    /\ status = "running"

\* C5 as stated: q executed anywhere ends the execution of the top-level
\* input: program returns and no later action is executed.
C5_QuitAlwaysEndsInput == Quit => status = "done"

\* C5, amended: q ends the execution of the top-level input exactly when it
\* is executed at top level or in a macro invoked directly from the top
\* level; at macro level 2 or deeper the run goes on.
C5_QuitEndsInputUptoLevelOne == Quit => (status = "done" <=> levels(last.m.frames) <= 1)

\* q was executed at level 2 and program takes the next action of the input.
C5_Witness ==
    /\ Quit
    /\ levels(last.m.frames) = 2
    /\ frames = <<>>
    /\ status = "running"
    /\ ip < Len(input)

\* The step just taken invoked a macro by the last action of a macro body.
TailCall ==
    /\ last.kind = "macro"
    /\ last.r.kind = "Macro"
    /\ LET f == last.m.frames[Len(last.m.frames)]
       IN  text_get(f.text, f.pos + 1).op = "Eof"

\* C6: a macro invoked by the last action of a macro body gets no frame of
\* its own: the number of frames is unchanged, and the innermost frame
\* holds the new text at position 0 with its tail depth one higher.
C6_TailCallKeepsDepth ==
    TailCall =>
        LET n == Len(last.m.frames)
        IN  /\ Len(frames) = n
            /\ frames = [last.m.frames EXCEPT ![n] =
                            [text |-> last.r.text, pos |-> 0,
                             tail_recursion_depth |-> @.tail_recursion_depth + 1]]

\* A third consecutive tail call was made in one frame.
C6_Witness ==
    /\ TailCall
    /\ Len(frames) = 1
    /\ frames[1].tail_recursion_depth = 3

\* C10: when an action returns an error, one error line with its message
\* is appended to the output, and the program or macro body goes on with
\* its next action: the frames and the status are as before.
C10_ErrorContinues ==
    (last.kind \in {"program", "macro"} /\ last.r.kind = "Err") =>
        /\ dc.out = Append(last.m.dc.out, [kind |-> "error", msg |-> last.r.msg, b |-> last.r.b])
        /\ status = "running"
        /\ result = last.m.result
        /\ last.kind = "program" => (frames = <<>> /\ ip = last.m.ip + 1)
        /\ last.kind = "macro" =>
              /\ ip = last.m.ip
              /\ frames = [last.m.frames EXCEPT ![Len(last.m.frames)].pos = @ + 1]

\* An action has returned an error three frames deep.
C10_Witness ==
    /\ last.kind = "macro"
    /\ last.r.kind = "Err"
    /\ Len(frames) = 3

(***************************************************************************)
(* A ReaderParser run over one input (ParseSpec): every byte sequence of   *)
(* up to MaxInput bytes over ParseAlphabet is read to its end, one call of *)
(* Iterator::next per step.  trace.items are the actions returned so far   *)
(* (Eof for None) and trace.steps the calls of Parser::step made for them. *)
(***************************************************************************)
MaxInput == 4

ParseAlphabet == Bytes(<<"1", "_", ".", "[", "]", "\\", "!", "\n", "=", "e", "#">>)

ParseInputs ==
    UNION { [1..n -> {ParseAlphabet[i] : i \in 1..Len(ParseAlphabet)}] : n \in 0..MaxInput }

ParseInit ==
    /\ reader \in { ReaderParser(b) : b \in ParseInputs }
    /\ trace = [items |-> <<>>, steps |-> <<>>]
    /\ dc = Machine0.dc
    /\ frames = <<>>
    /\ input = <<>>
    /\ ip = 0
    /\ status = "running"
    /\ result = Continue
    /\ overflow_checks = FALSE
    /\ last = Step("none", NoAction, Continue, Machine0)
    /\ ref = Machine0
    /\ phase = "parse"

\* The loop over the reader has ended: it returned None.
Ended == trace.items # <<>> /\ trace.items[Len(trace.items)].op = "Eof"

Read(n) ==
    /\ reader' = n.rp
    /\ trace' = [items |-> Append(trace.items, n.item), steps |-> trace.steps \o n.steps]
    /\ UNCHANGED <<dc, frames, input, ip, status, result, overflow_checks, last, ref, phase>>

\* `for action in ReaderParser::new(r)` asks for the next action.
ReaderNext == phase = "parse" /\ ~Ended /\ Read(reader_next(reader))

ParseNext == ReaderNext

ParseSpec == ParseInit /\ [][ParseNext]_vars

(***************************************************************************)
(* Register commands in sequence (RegSpec): up to MaxRegOps of the         *)
(* commands s l S L : ; on the registers x and y, from a stack             *)
(* of three values and a register file a program can have built.  trace    *)
(* keeps, before and after the last command: the slot pushed by the last   *)
(* Sr that only :r and ;r have followed (the register as it was below it   *)
(* and the entries stored since), the values each register was given by    *)
(* Sr and has not returned by Lr, and the registers only S, L and l have   *)
(* touched.                                                                *)
(***************************************************************************)
MaxRegOps == 4

RegNames == {120, 121}

RegValues == {Num(Zero), Num(One)}

RegStacks == {<<>>} \cup [1..3 -> RegValues]

\* Nothing stored; or `2Sx 1 0:x` has run.
RegRegisters ==
    { <<>>,
      put(<<>>, 120, array_store(reg_push(<<>>, Num(BigReal(2, 0))), Zero, Num(One))) }

RegCommands ==
    { Register(ra, r) : ra \in {"Store", "Load", "PushRegStack", "PopRegStack",
                                "StoreRegArray", "LoadRegArray"},
                        r \in RegNames }

NoSlot == [open |-> FALSE, reg |-> 0, below |-> <<>>, stored |-> <<>>]

\* What is kept of a register file when the run begins.
Tracked(registers) ==
    [slot |-> NoSlot,
     pushed |-> [r \in RegNames |-> <<>>],
     pure |-> {r \in RegNames : get(registers, r) = <<>>}]

\* What is kept after the command a, which returned ar, on the evaluator d.
Track(t, a, ar, d) ==
    LET ok == ar.r.kind = "Continue"
        r == a.c
        here == t.slot.open /\ t.slot.reg = r
    IN  [slot |->
            CASE a.ra = "PushRegStack" /\ ok ->
                    [open |-> TRUE, reg |-> r, below |-> get(d.registers, r), stored |-> <<>>]
              [] a.ra = "StoreRegArray" /\ here /\ ok ->
                    [t.slot EXCEPT !.stored =
                        Append(@, [key |-> top(d).n, val |-> d.stack[Len(d.stack) - 1]])]
              [] a.ra \in {"StoreRegArray", "LoadRegArray"} /\ here -> t.slot
              [] OTHER -> NoSlot,
         pushed |->
            [t.pushed EXCEPT ![r] =
                IF a.ra = "PushRegStack" /\ ok THEN Append(@, top(d))
                ELSE IF a.ra = "PopRegStack" /\ @ # <<>> THEN SubSeq(@, 1, Len(@) - 1)
                ELSE @],
         pure |-> IF a.ra \in {"Store", "StoreRegArray"} /\ ok THEN t.pure \ {r} ELSE t.pure]

RegInit ==
    /\ \E st \in RegStacks, rg \in RegRegisters :
          /\ dc = [new(Stdin) EXCEPT !.stack = st, !.registers = rg]
          /\ trace = [now |-> Tracked(rg), before |-> Tracked(rg)]
    /\ frames = <<>>
    /\ input = <<>>
    /\ ip = 0
    /\ status = "running"
    /\ result = Continue
    /\ overflow_checks = FALSE
    /\ last = Step("none", NoAction, Continue, Machine0)
    /\ ref = Machine0
    /\ phase = "registers"
    /\ reader = ReaderParser(<<>>)

RegApplied(a, ar) ==
    /\ dc' = ar.d
    /\ ip' = ip + 1
    /\ last' = Step("eval", a, ar.r, Machine)
    /\ trace' = [now |-> Track(trace.now, a, ar, dc), before |-> trace.now]
    /\ UNCHANGED <<frames, input, status, result, overflow_checks, ref, phase, reader>>

RegApply ==
    \E a \in RegCommands :
        phase = "registers" /\ ip < MaxRegOps /\ RegApplied(a, action(dc, a))

RegNext == RegApply

RegSpec == RegInit /\ [][RegNext]_vars

(***************************************************************************)
(* Properties of the reader and the parser (ParseSpec).                    *)
(***************************************************************************)
Items == trace.items

Steps == trace.steps

\* The bytes Number::push accepts.
NumberBytes == {95, 46} \cup {c \in 0..255 : IsDigit(c)}

\* C11: NumberChar actions come in runs that PushNumber ends, each run an
\* optional leading `_`, digits and at most one `.`; a StringChar action is
\* followed by a StringChar or by PushString.
C11_NumberAndStringRuns ==
    \A i \in 1..Len(Items) :
        /\ Items[i].op = "NumberChar" =>
              /\ Items[i].c \in NumberBytes
              /\ i < Len(Items) => Items[i + 1].op \in {"NumberChar", "PushNumber"}
              /\ i > 1 /\ Items[i - 1].op = "NumberChar" => Items[i].c # 95
              /\ \A j \in 1..(i - 1) :
                    (Items[i].c = 46 /\ Items[j].op = "NumberChar" /\ Items[j].c = 46)
                        => \E k \in (j + 1)..(i - 1) : Items[k].op # "NumberChar"
              /\ ~(Ended /\ i = Len(Items))
        /\ Items[i].op = "StringChar" =>
              /\ i < Len(Items) => Items[i + 1].op \in {"StringChar", "PushString"}
              /\ ~(Ended /\ i = Len(Items))

\* The input `_1.` followed by a byte that is no part of a number has been
\* read to its end: a run of three NumberChar and its PushNumber.
C11_Witness ==
    /\ Ended
    /\ Len(Items) = 6
    /\ Items[1] = ActionChar("NumberChar", 95)
    /\ Items[3] = ActionChar("NumberChar", 46)
    /\ Items[4] = Action("PushNumber")
    /\ Items[5].op = "Unimplemented"

\* The bytes the parser has taken and not put back, in order.
Consumed ==
    LET taken == SelectSeq(Steps, LAMBDA st : st.c # NoByte /\ st.back = NoByte)
    IN  [i \in 1..Len(taken) |-> taken[i].c]

\* The call i of Parser::step was given a byte that cannot extend the number
\* the parser is in.
Terminates(i) ==
    /\ Steps[i].state.st = "Number"
    /\ Steps[i].c # NoByte
    /\ ~IsDigit(Steps[i].c)
    /\ ~(Steps[i].c = 46 /\ ~Steps[i].state.decimal)

\* C12: a byte that cannot extend the current number yields PushNumber and
\* is put back, then handled once in the Start state; the bytes the parser
\* takes are the bytes of the input, each once and in order, all of them by
\* the time the reader has ended.
C12_TerminatorPushedBack ==
    /\ \A i \in 1..Len(Steps) :
          Terminates(i) =>
              /\ Steps[i].action = Action("PushNumber")
              /\ Steps[i].back = Steps[i].c
              /\ ~(Ended /\ i = Len(Steps))
              /\ i < Len(Steps) =>
                    /\ Steps[i + 1].state.st = "Start"
                    /\ Steps[i + 1].c = Steps[i].c
                    /\ Steps[i + 1].back = NoByte
    /\ Consumed = SubSeq(reader.bytes, 1, Len(Consumed))
    /\ Len(Consumed) + (IF reader.stashed = NoByte THEN 0 ELSE 1) = reader.pos - 1
    /\ Ended => Consumed = reader.bytes

\* A number was ended by the last byte of the input, which was put back and
\* handled before the end of input was seen.
C12_Witness ==
    /\ Ended
    /\ \E i \in 1..Len(Steps) :
          /\ Terminates(i)
          /\ Len(Steps) = i + 2
          /\ Steps[i + 1].c = reader.bytes[Len(reader.bytes)]
          /\ Steps[i + 2].c = NoByte

\* The call i of Parser::step was made at end of input.
AtEof(i) == Steps[i].c = NoByte

\* The parser awaits a register byte.
AwaitsRegister(state) ==
    state.st = "Register" \/ (state.st = "TwoRegister" /\ state.second)

\* A comparison has its register and the `e` of an if-else may still follow.
PendingComparison(state) == state.st = "TwoRegister" /\ ~state.second

\* What C13 says a step at end of input returns in the given state.
EofActionStated(state) ==
    CASE state.st = "Number" -> Action("PushNumber")
      [] state.st = "String" -> Action("PushString")
      [] state.st = "ShellExec" -> Action("ShellExec")
      [] AwaitsRegister(state) -> InputError("UnexpectedEof")
      [] OTHER -> Action("Eof")

\* After a step at end of input the parser is in Start, and a further step
\* is again at end of input and returns Eof.
EofLeavesStart ==
    \A i \in 1..Len(Steps) :
        AtEof(i) =>
            /\ Steps[i].to = ParseState("Start")
            /\ Steps[i].back = NoByte
            /\ i < Len(Steps) => AtEof(i + 1) /\ Steps[i + 1].action = Action("Eof")

\* C13 as stated: at end of input the parser returns PushNumber in Number,
\* PushString in String, ShellExec in ShellExec, InputError while a register
\* byte is awaited and Eof in every other state, and is then in Start.
C13_EofActionByState ==
    /\ \A i \in 1..Len(Steps) : AtEof(i) => Steps[i].action = EofActionStated(Steps[i].state)
    /\ EofLeavesStart

\* C13, amended: as stated, except that a comparison which has read its
\* register returns that comparison (and not Eof) at end of input.
C13_EofActionByStateOrComparison ==
    /\ \A i \in 1..Len(Steps) :
          AtEof(i) =>
              Steps[i].action =
                  IF PendingComparison(Steps[i].state)
                  THEN Register(Steps[i].state.ra, Steps[i].state.first_reg)
                  ELSE EofActionStated(Steps[i].state)
    /\ EofLeavesStart

\* The input ended after a comparison and its register: the comparison was
\* returned, and the step after it returned Eof.
C13_Witness ==
    /\ Ended
    /\ \E i \in 1..Len(Steps) :
          /\ AtEof(i) /\ PendingComparison(Steps[i].state)
          /\ Steps[i].action.op = "Register"
          /\ Len(Steps) = i + 1

\* The call i of Parser::step began a string: `[` in the Start state.
Opens(i) == Steps[i].state.st = "Start" /\ Steps[i].c = 91

\* The byte of call j follows an unescaped backslash of the string begun at i.
RECURSIVE Escaped(_, _)
Escaped(i, j) == j - 1 > i /\ Steps[j - 1].c = 92 /\ ~Escaped(i, j - 1)

\* The unescaped `[` less the unescaped `]` among the calls i+1..j.
RECURSIVE Depth(_, _)
Depth(i, j) ==
    IF j <= i THEN 0
    ELSE Depth(i, j - 1)
            + (IF Escaped(i, j) THEN 0
               ELSE IF Steps[j].c = 91 THEN 1
               ELSE IF Steps[j].c = 93 THEN -1
               ELSE 0)

\* The byte of call j is an unescaped `]` that finds the brackets balanced.
Closes(i, j) == Steps[j].c = 93 /\ ~Escaped(i, j) /\ Depth(i, j - 1) = 0

\* The string begun at i is still open when call j is made.
Inside(i, j) == Opens(i) /\ i < j /\ \A k \in (i + 1)..(j - 1) : ~Closes(i, k) /\ ~AtEof(k)

\* C14: within a string, PushString is returned exactly at the first
\* unescaped `]` that finds the unescaped brackets balanced; other unescaped
\* brackets are StringChar and move the level by one, a byte after an
\* unescaped backslash is StringChar and keeps the level, the backslash
\* itself returns nothing, and the level is never negative.
C14_StringBracketing ==
    \A i \in 1..Len(Steps) : \A j \in (i + 1)..Len(Steps) :
        (Inside(i, j) /\ ~AtEof(j)) =>
            /\ Steps[j].state.st = "String"
            /\ Steps[j].state.level = Depth(i, j - 1)
            /\ Steps[j].state.level >= 0
            /\ Steps[j].action =
                  IF Closes(i, j) THEN Action("PushString")
                  ELSE IF Steps[j].c = 92 /\ ~Escaped(i, j) THEN NoAction
                  ELSE ActionChar("StringChar", Steps[j].c)
            /\ Steps[j].to =
                  IF Closes(i, j) THEN ParseState("Start")
                  ELSE StateString(Depth(i, j), Steps[j].c = 92 /\ ~Escaped(i, j))

\* The input `[[]]` has been read: the inner brackets are StringChar and
\* the second `]` ends the string.
C14_Witness ==
    /\ Ended
    /\ Items = <<ActionChar("StringChar", 91), ActionChar("StringChar", 93),
                 Action("PushString"), Action("Eof")>>
    /\ Opens(1) /\ Closes(1, 4) /\ Depth(1, 2) = 1

\* The call i of Parser::step read a `!` in the Start state and the byte
\* after it is not `<`, `>` or `=`: a shell command begins.
ShellBang(i) ==
    /\ Steps[i].state.st = "Start" /\ Steps[i].c = 33
    /\ i < Len(Steps)
    /\ Steps[i + 1].c \notin {60, 61, 62}

\* The byte of call j was ignored as part of a shell command.
Ignored(j) == Steps[j].c # NoByte /\ Steps[j].state.st \in {"Bang", "ShellExec"}

\* C15: after a `!` that begins a shell command the parser ignores the
\* bytes up to and including the first newline after the `!`, and no byte
\* beyond that newline.
C15_ShellIgnoresOneLine ==
    \A i \in 1..Len(Steps) : \A j \in (i + 1)..Len(Steps) :
        (ShellBang(i) /\ ~AtEof(j)) =>
            (Ignored(j) <=> \A k \in (i + 1)..(j - 1) : Steps[k].c # 10)

\* How many of the calls 1..n of Parser::step satisfy P.
RECURSIVE CountSteps(_, _)
CountSteps(P(_), n) ==
    IF n = 0 THEN 0 ELSE CountSteps(P, n - 1) + (IF P(n) THEN 1 ELSE 0)

ShellExecs == Len(SelectSeq(Items, LAMBDA a : a.op = "ShellExec"))

\* A shell command begins at call i and at least one byte follows the `!`.
ShellBangBeforeByte(i) == ShellBang(i) /\ ~AtEof(i + 1)

\* C16 as stated: every `!` that begins a shell command, the last byte of
\* the input included, results in exactly one ShellExec action.
C16_EveryBangOneShellExec ==
    /\ ShellExecs <= CountSteps(ShellBang, Len(Steps))
    /\ Ended => ShellExecs = CountSteps(ShellBang, Len(Steps))

\* C16, amended: every `!` that begins a shell command and is not the last
\* byte of the input results in exactly one ShellExec action, whether a
\* newline or the end of input ends the command; a `!` that is the last
\* byte of the input results in none.
C16_BangBeforeByteOneShellExec ==
    /\ ShellExecs <= CountSteps(ShellBangBeforeByte, Len(Steps))
    /\ Ended => ShellExecs = CountSteps(ShellBangBeforeByte, Len(Steps))

\* The input `!e`, newline, `!` has been read: the first command, ended by
\* the newline, gave one ShellExec and the `!` at the end gave none.
C16_Witness ==
    /\ Ended
    /\ reader.bytes = <<33, 101, 10, 33>>
    /\ ShellExecs = 1
    /\ CountSteps(ShellBang, Len(Steps)) = 2
    /\ CountSteps(ShellBangBeforeByte, Len(Steps)) = 1

(***************************************************************************)
(* Properties of register commands in sequence (RegSpec).  last.a is the   *)
(* command just run on the evaluator last.m.dc, dc the evaluator after it. *)
(***************************************************************************)
RegCommand(ra) == last.kind = "eval" /\ last.a.op = "Register" /\ last.a.ra = ra

Succeeded == last.r.kind = "Continue"

RegBefore(r) == get(last.m.dc.registers, r)

RegAfter(r) == get(dc.registers, r)

\* The value last stored under key among the entries, zero if there is none.
RECURSIVE Lookup(_, _)
Lookup(stored, key) ==
    IF stored = <<>> THEN Num(Zero)
    ELSE IF eq(stored[Len(stored)].key, key) THEN stored[Len(stored)].val
    ELSE Lookup(SubSeq(stored, 1, Len(stored) - 1), key)

\* The slot pushed by Sr on the register of the last command was on top of
\* it, with only :r and ;r since, when the command began.
OnNewSlot == trace.before.slot.open /\ trace.before.slot.reg = last.a.c

\* C17: Sr, then any number of :r, then Lr leaves the register as it was
\* before the Sr, the array of the slot that was on top included; and ;r
\* while the new slot is on top finds only what was stored since the Sr.
C17_ArraySlotLocality ==
    /\ (RegCommand("PopRegStack") /\ OnNewSlot) =>
            RegAfter(last.a.c) = trace.before.slot.below
    /\ (RegCommand("LoadRegArray") /\ OnNewSlot /\ Succeeded) =>
            top(dc) = Lookup(trace.before.slot.stored, top(last.m.dc).n)

\* `2Sx 1 0:x` had run; then Sx, `:x` under the key 0 and Lx: the slot
\* below, with its entry for the key 0, is back on top.
C17_Witness ==
    /\ RegCommand("PopRegStack") /\ OnNewSlot
    /\ Len(trace.before.slot.stored) = 1
    /\ eq(trace.before.slot.stored[1].key, Zero)
    /\ trace.before.slot.stored[1].val # Num(One)
    /\ Len(RegAfter(120)) = 1
    /\ array_load(RegAfter(120), Zero) = Num(One)

\* C18: sr on a register with a slot keeps the number of slots, the slots
\* below the top one and the array of the top slot, and replaces the main
\* value of the top slot; on an empty register it makes one slot that holds
\* the value.
C18_StoreKeepsSlotArray ==
    (RegCommand("Store") /\ Succeeded) =>
        LET r == last.a.c
            b == RegBefore(r)
            a == RegAfter(r)
            v == top(last.m.dc)
        IN  IF b = <<>> THEN a = <<DCRegister(v)>>
            ELSE /\ Len(a) = Len(b)
                 /\ SubSeq(a, 1, Len(a) - 1) = SubSeq(b, 1, Len(b) - 1)
                 /\ a[Len(a)].main_value = v
                 /\ a[Len(a)].map = b[Len(b)].map

\* The register of the last command had no main value on top.
HadNoValue == reg_value(RegBefore(last.a.c)) = NoValue

\* The values Sr gave the register of the last command that Lr had not
\* returned, when the command began; the register had been touched by S, L
\* and l only.
Pushed == trace.before.pushed[last.a.c]

WasPure == last.a.c \in trace.before.pure

\* C19: on a register that only S, L and l have touched, Lr returns the
\* value last pushed and not yet popped and lr pushes a copy of it and
\* leaves the register alone; Lr and lr on a register without a value
\* return an error and push nothing; no command changes another register.
C19_RegistersAreStacks ==
    last.kind = "eval" =>
        /\ \A r \in RegNames \ {last.a.c} : RegAfter(r) = RegBefore(r)
        /\ (RegCommand("PopRegStack") /\ WasPure /\ Pushed # <<>>) =>
                /\ Succeeded
                /\ dc.stack = Append(last.m.dc.stack, Pushed[Len(Pushed)])
        /\ (RegCommand("Load") /\ WasPure /\ Pushed # <<>>) =>
                /\ Succeeded
                /\ dc.stack = Append(last.m.dc.stack, Pushed[Len(Pushed)])
                /\ dc.registers = last.m.dc.registers
        /\ (RegCommand("PopRegStack") /\ (HadNoValue \/ (WasPure /\ Pushed = <<>>))) =>
                /\ last.r = Err("stack register is empty", <<last.a.c>>)
                /\ dc.stack = last.m.dc.stack
        /\ (RegCommand("Load") /\ (HadNoValue \/ (WasPure /\ Pushed = <<>>))) =>
                /\ last.r = Err("register is empty", <<last.a.c>>)
                /\ dc.stack = last.m.dc.stack
                /\ dc.registers = last.m.dc.registers

\* After two Sy of different values, Ly has returned the second while x
\* holds a slot.
C19_Witness ==
    /\ RegCommand("PopRegStack") /\ last.a.c = 121 /\ WasPure
    /\ Len(Pushed) = 2 /\ Pushed[1] # Pushed[2]
    /\ top(dc) = Pushed[2]
    /\ RegAfter(120) # <<>>

(***************************************************************************)
(* Properties of the Q command in the macro runner (Spec).                 *)
(***************************************************************************)

\* The step just taken ran the Q command on a stack that held a value.
QuitLevelsCommand ==
    /\ last.kind \in {"program", "macro"}
    /\ last.a.op = "QuitLevels"
    /\ last.m.dc.stack # <<>>

\* The value v is no number whose integer part is at least 1.
BelowOne(v) == v.t = "Str" \/ change_shift(v.n, 0).value < 1

\* C21: Q returns QuitLevels(n) only with n >= 1; a string, zero, a negative
\* number or a positive number whose integer part is 0 gets the error
\* 'Q command requires a number >= 1', and the macro runner never subtracts
\* 1 from a count of 0.
C21_QuitLevelsAtLeastOne ==
    QuitLevelsCommand =>
        /\ last.r.kind = "QuitLevels" => last.r.n >= 1
        /\ BelowOne(top(last.m.dc)) => last.r = Err("Q command requires a number >= 1", <<>>)
        /\ result # Panic("attempt to subtract with overflow")

(***************************************************************************)
(* Numbers through the evaluator (NumSpec): one action of DC4::action on   *)
(* operands drawn from bounded sets of numbers, at every radix 2..16 and   *)
(* every scale up to MaxScale; or the top of the stack printed by p and    *)
(* the text printed run again as input.                                    *)
(***************************************************************************)
MaxScale == 2

Radixes == 2..16

NumScales == 0..MaxScale

\* Operands of / % and ~
NumOperands == { BigReal(v, s) : v \in {-51, -7, 0, 1, 5, 55, 505}, s \in {0, 1, 3} }

\* Operands of |: base, exponent, modulus
NumBases == { BigReal(v, 0) : v \in {-3, 0, 2, 4} }

NumExponents == { BigReal(v, 0) : v \in {0, 1, 2, 3, 13} }

NumModuli == { BigReal(v, 0) : v \in {1, 5, 497} }

\* A single value on the stack
NumSingles ==
    { Num(BigReal(v, 0)) : v \in {-66, -5, 0, 1, 2, 5, 15, 16, 17, 65, 200, 255, 321} }
        \cup { Num(BigReal(165, 1)), Num(BigReal(5, 1)), Num(BigReal(-5, 1)), Num(BigReal(450, 6)),
               Str(<<>>), Str(Bytes(<<"h", "i">>)) }

NumStacks ==
    { <<Num(a), Num(b)>> : a \in NumOperands, b \in NumOperands }
        \cup { <<Num(b), Num(e), Num(m)>> : b \in NumBases, e \in NumExponents, m \in NumModuli }

NumInit ==
    /\ \/ \E st \in NumStacks, sc \in NumScales :
             dc = [new(Stdin) EXCEPT !.stack = st, !.scale = sc]
       \/ \E v \in NumSingles, r \in Radixes, sc \in {0, MaxScale} :
             dc = [new(Stdin) EXCEPT !.stack = <<v>>, !.iradix = r, !.oradix = r, !.scale = sc]
    /\ frames = <<>>
    /\ input = <<>>
    /\ ip = 0
    /\ status = "running"
    /\ result = Continue
    /\ overflow_checks = FALSE
    /\ last = Step("none", NoAction, Continue, Machine0)
    /\ ref = Machine0
    /\ phase = "ready"
    /\ reader = ReaderParser(<<>>)
    /\ trace = <<>>

\* The loop of program over the actions inp, to the end of the input.
RECURSIVE feed(_, _)
feed(m, inp) ==
    IF m.status # "running" \/ m.frames # <<>> \/ m.ip >= Len(inp) THEN m
    ELSE feed(program(m, inp, FALSE), inp)

\* The line that p writes for the value elem.
printed(d, elem) == Append(print_elem(d, elem), 10)

\* The machine has run the text that p wrote for the top of its stack.
RoundTripped(text, m) ==
    /\ dc' = m.dc
    /\ last' = Step("roundtrip", NoAction, m.r, Machine)
    /\ trace' = text
    /\ phase' = "applied"
    /\ UNCHANGED <<frames, input, ip, status, result, overflow_checks, ref, reader>>

\* The numbers printed and read again are the integers of NumSingles.
RoundTrip ==
    /\ phase = "ready"
    /\ dc.stack # <<>> /\ top(dc).t = "Num" /\ top(dc).n.shift = 0
    /\ RoundTripped(printed(dc, top(dc)), feed(Machine, ReaderActions(printed(dc, top(dc)))))

NumDivide == \E a \in { Action(op) : op \in {"Div", "Rem", "DivRem"} } : Apply(a)

NumModExp == Apply(Action("ModExp"))

NumMode ==
    \E a \in { Action(op) : op \in {"SetInputRadix", "SetOutputRadix", "SetPrecision"} } : Apply(a)

NumText == \E a \in { Action(op) : op \in {"Asciify", "NumDigits"} } : Apply(a)

NumNext == NumDivide \/ NumModExp \/ NumMode \/ NumText \/ RoundTrip

NumSpec == NumInit /\ [][NumNext]_vars

(***************************************************************************)
(* Properties of the numbers through the evaluator (NumSpec).              *)
(***************************************************************************)
\* The modes iradix, oradix and scale of an evaluator.
Modes(d) == <<d.iradix, d.oradix, d.scale>>

\* The action just applied is i, o or k on a stack that held a value.
SetMode ==
    /\ last.kind = "eval"
    /\ last.a.op \in {"SetInputRadix", "SetOutputRadix", "SetPrecision"}
    /\ last.m.dc.stack # <<>>

\* x * 10^(-shift) lies in lo..hi.
InRange(x, lo, hi) == lo * Pow10(x.shift) <= x.value /\ x.value <= hi * Pow10(x.shift)

\* The integer part of x: x without its fraction digits.
IntegerPart(x) == TruncDiv(x.value, Pow10(x.shift))

RoundTripStep == last.kind = "roundtrip"

\* The round trip has pushed one number, equal to x.
PushedEqual(x) ==
    /\ Len(dc.stack) = Len(Before) + 1
    /\ SubSeq(dc.stack, 1, Len(Before)) = Before
    /\ top(dc).t = "Num" /\ eq(top(dc).n, x)

\* C23 as stated: for every radix r in 2..16 and every integer n, negative
\* ones included, n printed with oradix = r and read again with iradix = r
\* pushes a number equal to n.
C23_RadixRoundTrip == RoundTripStep => PushedEqual(top(last.m.dc).n)

\* C23 amended: the round trip pushes n for every integer n >= 0 and writes
\* no error; the text of a negative n begins with '-', which is run as the
\* subtraction command on the stack as it is, and the number then pushed
\* is -n.
C23_RadixRoundTripNonNegative ==
    RoundTripStep =>
        LET n == top(last.m.dc).n
        IN  IF n.value >= 0
            THEN PushedEqual(n) /\ dc.out = last.m.dc.out
            ELSE /\ trace[1] = 45
                 /\ top(dc).t = "Num" /\ eq(top(dc).n, BigReal(-n.value, 0))
                 /\ Len(Before) = 1 => Len(dc.stack) = 2 /\ dc.out # last.m.dc.out

\* 255 printed in radix 16 is FF and is read again as 255.
C23_Witness ==
    /\ RoundTripStep
    /\ last.m.dc.oradix = 16 /\ last.m.dc.iradix = 16
    /\ top(last.m.dc) = Num(BigReal(255, 0))
    /\ trace = <<70, 70, 10>>
    /\ PushedEqual(BigReal(255, 0))

\* The action just applied is op on two numbers, the top one not zero.
Divides(op) ==
    /\ last.kind = "eval" /\ last.a.op = op
    /\ Len(Before) = 2
    /\ Before[1].t = "Num" /\ Before[2].t = "Num"
    /\ Before[2].n.value # 0

\* The operands a and b of `a b /` and the scale k it ran at.
Dividend == Before[1].n

Divisor == Before[2].n

ScaleBefore == last.m.dc.scale

\* q is the quotient of x by y truncated toward zero.
IsQuotient(q, x, y) ==
    /\ Abs(q) * Abs(y) <= Abs(x)
    /\ Abs(x) < (Abs(q) + 1) * Abs(y)
    /\ q # 0 => (q > 0) = ((x > 0) = (y > 0))

\* x is div(a, b, k): its shift is k and its value the truncated quotient
\* of a with max(s_a, s_b) + k fraction digits by b with max(s_a, s_b).
IsDiv(x, a, b, k) ==
    LET m == Max(a.shift, b.shift)
    IN  /\ x.shift = k
        /\ IsQuotient(x.value, a.value * Pow10(m + k - a.shift), b.value * Pow10(m - b.shift))

\* C24: for all numbers a, b # 0 and every scale k, a / b has shift exactly
\* k and its value is the quotient, truncated toward zero, of a aligned to
\* max(s_a, s_b) + k fraction digits by b aligned to max(s_a, s_b).
C24_DivScaleDiscipline ==
    Divides("Div") =>
        /\ ~Errored /\ Len(dc.stack) = 1 /\ top(dc).t = "Num"
        /\ IsDiv(top(dc).n, Dividend, Divisor, ScaleBefore)

\* -51 / 5 at scale 0 is -10.
C24_Witness ==
    /\ Divides("Div") /\ ScaleBefore = 0
    /\ Dividend = BigReal(-51, 0) /\ Divisor = BigReal(5, 0)
    /\ top(dc) = Num(BigReal(-10, 0))

\* a = q * b + r holds exactly, in integers at the largest shift involved.
ExactlyQuotientAndRest(a, b, q, r) ==
    LET s == Max(Max(a.shift, q.shift + b.shift), r.shift)
    IN  a.value * Pow10(s - a.shift) =
            q.value * b.value * Pow10(s - q.shift - b.shift) + r.value * Pow10(s - r.shift)

\* r is rem(a, b, k): a - b * div(a, b, k).
IsRem(r, a, b, k) ==
    /\ eq(r, sub(a, mul(b, div(a, b, k))))
    /\ ExactlyQuotientAndRest(a, b, div(a, b, k), r)

\* C25: for all numbers a, b # 0 and every scale k, a % b equals
\* a - b * div(a, b, k), so that a = div(a, b, k) * b + (a % b) exactly, and
\* ~ pushes the pair div(a, b, k), rem(a, b, k), the remainder on top.
C25_RemainderIdentity ==
    /\ Divides("Rem") =>
          /\ ~Errored /\ Len(dc.stack) = 1 /\ top(dc).t = "Num"
          /\ IsRem(top(dc).n, Dividend, Divisor, ScaleBefore)
    /\ Divides("DivRem") =>
          /\ ~Errored /\ Len(dc.stack) = 2
          /\ dc.stack[1] = Num(div(Dividend, Divisor, ScaleBefore))
          /\ IsDiv(dc.stack[1].n, Dividend, Divisor, ScaleBefore)
          /\ dc.stack[2].t = "Num"
          /\ IsRem(dc.stack[2].n, Dividend, Divisor, ScaleBefore)

\* 50.5 % 0.055 at scale 1 is 0.0045: the quotient is 918.1.
C25_Witness ==
    /\ Divides("Rem") /\ ScaleBefore = 1
    /\ Dividend = BigReal(505, 1) /\ Divisor = BigReal(55, 3)
    /\ eq(top(dc).n, BigReal(45, 4))

\* The action just applied is | on three integers: an exponent >= 0 and a
\* modulus >= 1.
ModExpOfIntegers ==
    /\ last.kind = "eval" /\ last.a.op = "ModExp"
    /\ Len(Before) = 3
    /\ \A i \in 1..3 : Before[i].t = "Num" /\ Before[i].n.shift = 0
    /\ Before[2].n.value >= 0
    /\ Before[3].n.value >= 1

\* b^e, by repeated multiplication.
RECURSIVE Power(_, _)
Power(b, e) == IF e = 0 THEN 1 ELSE b * Power(b, e - 1)

\* C26: for an integer base, an integer exponent >= 0 and an integer
\* modulus >= 1, | pushes base^exponent mod modulus, which is 0 when the
\* modulus is 1, and the result is the same at every scale.
C26_ModExpIndependentOfScale ==
    ModExpOfIntegers =>
        /\ ~Errored /\ Len(dc.stack) = 1 /\ top(dc).t = "Num"
        /\ eq(top(dc).n,
              BigReal(TruncRem(Power(Before[1].n.value, Before[2].n.value), Before[3].n.value), 0))

\* The action just applied is op on a stack that held a value.
OnTop(op) == last.kind = "eval" /\ last.a.op = op /\ Before # <<>>

\* The top of the stack has been replaced by v.
Replaced(v) == ~Errored /\ dc.stack = Append(Drop(Before, 1), v)

\* C27: a replaces a string on top by the string of its first byte, an
\* empty string staying empty, and a number n by the string of the one byte
\* |trunc(n)| mod 256, whatever that byte is in 0..255.
C27_AsciifyOneByte ==
    OnTop("Asciify") =>
        LET v == top(last.m.dc)
        IN  IF v.t = "Str" THEN Replaced(Str(SubSeq(v.s, 1, Min(1, Len(v.s)))))
            ELSE Replaced(Str(<<Abs(IntegerPart(v.n)) % 256>>))

\* The number of base-10 digits of the natural number n.
RECURSIVE Digits(_)
Digits(n) == IF n < 10 THEN 1 ELSE 1 + Digits(n \div 10)

\* C28: Z on a number pushes the count of base-10 digits of the absolute
\* value of its integer representation; the sign is not counted, so a
\* number and its negation give the same count.
C28_NumDigitsIgnoresSign ==
    OnTop("NumDigits") /\ top(last.m.dc).t = "Num" =>
        Replaced(Num(BigReal(Digits(Abs(top(last.m.dc).n.value)), 0)))

(***************************************************************************)
(* Properties of printing and of the array store (EvalSpec).               *)
(***************************************************************************)
\* The action just applied is op.
Ran(op) == last.kind = "eval" /\ last.a.op = op

\* The bytes the action has written to w: the chunk it added to out.
Written ==
    IF Len(dc.out) = Len(last.m.dc.out) THEN <<>>
    ELSE IF dc.out[Len(dc.out)].kind = "out" THEN dc.out[Len(dc.out)].b
    ELSE <<>>

\* The values of st from the last to the first, each on a line of its own.
RECURSIVE Lines(_)
Lines(st) ==
    IF st = <<>> THEN <<>>
    ELSE print_elem(last.m.dc, st[Len(st)]) \o <<10>> \o Lines(SubSeq(st, 1, Len(st) - 1))

StackEmpty == last.r = Err("stack empty", <<>>)

\* C29: p and f never change the stack; p on an empty stack returns 'stack
\* empty' and f writes every value, the top first, one on each line; n and
\* P take exactly the top value off and leave the rest of the stack.
C29_PrintingAndTheStack ==
    /\ Ran("Print") =>
          /\ dc.stack = Before
          /\ IF Before = <<>> THEN StackEmpty /\ Written = <<>>
             ELSE ~Errored /\ Written = Lines(<<top(last.m.dc)>>)
    /\ Ran("PrintStack") => dc.stack = Before /\ ~Errored /\ Written = Lines(Before)
    /\ Ran("PrintNoNewlinePop") \/ Ran("PrintBytesPop") =>
          IF Before = <<>> THEN StackEmpty /\ dc.stack = <<>>
          ELSE ~Errored /\ dc.stack = Drop(Before, 1)

\* p has printed the top of a stack of three values, which are all there.
C29_Witness ==
    /\ Ran("Print") /\ Len(Before) = 3
    /\ dc.stack = Before
    /\ Written = <<49, 46, 53, 10>>

\* The action just applied is `:r` on a stack that held a key and a value.
StoreInArray ==
    /\ last.kind = "eval" /\ last.a.op = "Register" /\ last.a.ra = "StoreRegArray"
    /\ Len(Before) >= 2

\* C30: `:r` takes the key and then the value off the stack before it looks
\* at the key: with a key that is a string or a negative number it returns
\* 'array index must be a nonnegative integer', the key and the value are
\* both gone from the stack, and the registers are as they were.
C30_StorePopsBeforeValidating ==
    StoreInArray /\ (top(last.m.dc).t = "Str" \/ top(last.m.dc).n.value < 0) =>
        /\ last.r = Err("array index must be a nonnegative integer", <<>>)
        /\ dc.stack = Drop(Before, 2)
        /\ dc.registers = last.m.dc.registers

\* `:x` with the key -4 over the value 3, x holding an array: the error,
\* and one value left of three.
C30_Witness ==
    /\ StoreInArray /\ Len(Before) = 3
    /\ top(last.m.dc) = Num(BigReal(-4, 0))
    /\ Before[2] = Num(BigReal(3, 0))
    /\ last.m.dc.registers = put(<<>>, 120, array_store(<<>>, One, Num(BigReal(2, 0))))
    /\ Errored
    /\ dc.stack = <<Before[1]>>
    /\ dc.registers = last.m.dc.registers

\* A comparison was applied to two numbers.
ComparedNumbers ==
    /\ last.kind = "eval"
    /\ last.a.op = "Register" /\ last.a.ra \in Comparisons
    /\ Len(Before) >= 2
    /\ Before[Len(Before)].t = "Num" /\ Before[Len(Before) - 1].t = "Num"

\* The test of the comparison succeeded: (top) OP (second from top).
TestSucceeded == Holds(last.a.ra, Before[Len(Before)].n, Before[Len(Before) - 1].n)

\* The top value of the register the comparison names, before it ran.
Fetched == reg_value(get(last.m.dc.registers, last.a.c))

\* C31: when the test of a comparison succeeds the top value of register r
\* is fetched: a string is run as a macro, a number has no further effect,
\* and an empty register gives the error that the register is empty; when
\* the test fails the register is not consulted and nothing is reported,
\* even if r is empty.  In all four cases both operands are popped.
C31_ComparisonOutcome ==
    ComparedNumbers =>
        /\ dc.stack = Drop(Before, 2)
        /\ dc.registers = last.m.dc.registers
        /\ IF TestSucceeded
           THEN CASE Fetched.t = "Str" -> last.r = Macro(actions(Fetched.s))
                  [] Fetched.t = "Num" -> last.r = Continue
                  [] Fetched.t = "None" -> last.r = Err("register is empty", <<last.a.c>>)
           ELSE last.r = Continue

\* =x on 1 and 1 with nothing in x: the error, and both operands gone.
C31_Witness ==
    /\ ComparedNumbers /\ last.a.ra = "Eq"
    /\ Before = <<Num(Zero), Num(One), Num(One)>>
    /\ Fetched = NoValue
    /\ last.r.kind = "Err"
    /\ dc.stack = <<Num(Zero)>>

\* The action just applied is the register command ra.
RanRegister(ra) == last.kind = "eval" /\ last.a.op = "Register" /\ last.a.ra = ra

\* C32: an Lr that returns the error that the stack register is empty
\* leaves register r as it was; a slot that an array store created, with no
\* main value, and its array entries are still there after it.
C32_FailedPopKeepsRegister ==
    RanRegister("PopRegStack") /\ Errored =>
        /\ last.r = Err("stack register is empty", <<last.a.c>>)
        /\ dc.registers = last.m.dc.registers

(***************************************************************************)
(* Texts through the reader and the evaluator (TextSpec): the run of       *)
(* DC4::program, as in Spec, over inputs made of number tokens, strings,   *)
(* radix changes and array commands.                                       *)
(***************************************************************************)
\* Keys and values of `:x` and `;x`: one number in several representations.
KeyTokens == { <<"1", " ">>, <<"1", ".", "0", " ">>, <<"1", "0", " ">>, <<".", "1", "0", " ">>,
               <<".", "1", " ">>, <<"0", " ">> }

ValueTokens == { <<"5", " ">>, <<"[", "a", "]">> }

\* v k1 :x k2 ;x   and   v k1 :x w k2 :x k3 ;x
KeyPrograms ==
    { v \o k1 \o <<":", "x">> \o k2 \o <<";", "x">> :
        v \in ValueTokens, k1 \in KeyTokens, k2 \in KeyTokens }
    \cup
    { <<"7", " ">> \o k1 \o <<":", "x">> \o v \o k2 \o <<":", "x">> \o k3 \o <<";", "x">> :
        v \in ValueTokens, k1 \in KeyTokens, k2 \in KeyTokens, k3 \in KeyTokens }

\* Number tokens and strings, at top level or as the body of a macro.
NumberTokens ==
    { <<"1">>, <<"_", "1">>, <<"_">>, <<".">>, <<"1", "2", "A", "3">>, <<"F", "F">>,
      <<"_", "F", "0">>, <<"1", "_", "2">>, <<"1", ".", "5">>, <<"_", ".", "5">>,
      <<"[", "a", "b", "]">>, <<"[", "_", "1", "]", "x">>, <<"[", "[", "a", "]", "]", "x">> }

RadixTokens == { <<>>, <<"2", "i">>, <<"1", "6", "i">> }

Separators == { <<>>, <<" ">> }

\* Two tokens, run together when they have at most four bytes.
NumberPrograms ==
    { r \o c[1] \o c[2] \o c[3] :
        r \in RadixTokens,
        c \in { c \in NumberTokens \X Separators \X NumberTokens : Len(c[1]) + Len(c[3]) <= 4 \/ c[2] # <<>> } }

TextPrograms == { Bytes(s) : s \in KeyPrograms \cup NumberPrograms }

TextInit ==
    /\ input \in { ReaderActions(p) : p \in TextPrograms }
    /\ overflow_checks = FALSE
    /\ dc = Machine0.dc
    /\ frames = <<>>
    /\ ip = 0
    /\ status = "running"
    /\ result = Continue
    /\ last = Step("none", NoAction, Continue, Machine0)
    /\ ref = Machine0
    /\ phase = "run"
    /\ reader = ReaderParser(<<>>)
    /\ trace = <<>>

TextSpec == TextInit /\ [][Next]_vars

(***************************************************************************)
(* Properties of texts run by the evaluator (TextSpec).                    *)
(***************************************************************************)
\* The step just taken ran the register command ra, which returned Continue.
Did(ra) ==
    /\ last.kind \in {"program", "macro"}
    /\ last.a.op = "Register" /\ last.a.ra = ra
    /\ last.r.kind = "Continue"

\* a and b are the same number.
SameNumber(a, b) == a.value * Pow10(b.shift) = b.value * Pow10(a.shift)

\* The entries of the array of the top slot of a register.
Entries(stack) == IF stack = <<>> THEN {} ELSE stack[Len(stack)].map

\* Numbers in several representations each.
ProbeKeys == { BigReal(v, s) : v \in {0, 1, 10, 100}, s \in 0..2 }

\* C33: array keys are compared by their numeric value: after `:r` has
\* stored v under the key k1, the top slot holds v under every key that is
\* the same number as k1 and what it held under every other key; `;r` with
\* the key k2 pushes what is held under a key that is the same number as
\* k2, and zero when there is none, and creates neither an entry nor a
\* slot; and numbers that are equal hash equally.
C33_KeysComparedByValue ==
    /\ Did("StoreRegArray") =>
          LET k1 == top(last.m.dc).n
              v == Before[Len(Before) - 1]
              r == last.a.c
          IN  /\ \A k2 \in ProbeKeys :
                    array_load(RegAfter(r), k2) =
                        IF SameNumber(k1, k2) THEN v ELSE array_load(RegBefore(r), k2)
              /\ \A e \in Entries(RegAfter(r)) :
                    IF SameNumber(e.key, k1) THEN e.val = v ELSE e \in Entries(RegBefore(r))
              /\ \A k2 \in ProbeKeys : SameNumber(k1, k2) => hash(k1) = hash(k2)
    /\ Did("LoadRegArray") =>
          LET k2 == top(last.m.dc).n
              hits == { e \in Entries(RegBefore(last.a.c)) : SameNumber(e.key, k2) }
          IN  /\ dc.registers = last.m.dc.registers
              /\ dc.stack = Append(Drop(Before, 1), top(dc))
              /\ IF hits = {} THEN top(dc) = Num(Zero) ELSE \A e \in hits : top(dc) = e.val
              /\ Cardinality(hits) <= 1

\* `5 1:x 1.0;x`: the value stored under 1 is loaded under 1.0.
C33_Witness ==
    /\ Did("LoadRegArray")
    /\ top(last.m.dc) = Num(BigReal(10, 1))
    /\ Entries(RegBefore(120)) = { [key |-> One, val |-> Num(BigReal(5, 0))] }
    /\ dc.stack = <<Num(BigReal(5, 0))>>

\* The step just taken ran the action op, at the top level or in a macro.
Stepped(op) == last.kind \in {"program", "macro"} /\ last.a.op = op

\* The actions the step just taken was in, and the index in them of the
\* action it ran.
TextAround ==
    IF last.kind = "program" THEN input ELSE last.m.frames[Len(last.m.frames)].text

IndexAround ==
    IF last.kind = "program" THEN last.m.ip + 1 ELSE last.m.frames[Len(last.m.frames)].pos + 1

\* The bytes of the actions op that end just before index i of acts.
RECURSIVE RunBefore(_, _, _)
RunBefore(acts, i, op) ==
    IF i > 1 /\ acts[i - 1].op = op THEN Append(RunBefore(acts, i - 1, op), acts[i - 1].c)
    ELSE <<>>

\* The builder after the bytes of a token, from its initial state.
RECURSIVE Built(_, _)
Built(token, iradix) ==
    IF token = <<>> THEN NumberDefault
    ELSE number_push(Built(SubSeq(token, 1, Len(token) - 1), iradix), token[Len(token)], iradix)

\* The token of the PushNumber or PushString just run.
TokenPushed(op) == RunBefore(TextAround, IndexAround, op)

\* C34: after every PushNumber the number builder is in its initial state
\* and after every PushString the string buffer is empty; a builder holds
\* something only while its token is being read; and the value pushed is
\* the value of its own token alone, in a macro as at the top level.
C34_BuildersReset ==
    /\ Stepped("PushNumber") =>
          /\ dc.current_num = NumberDefault
          /\ dc.stack = Append(Before,
                               number_finish(Built(TokenPushed("NumberChar"), dc.iradix), dc.iradix))
    /\ Stepped("PushString") =>
          /\ dc.current_str = <<>>
          /\ dc.stack = Append(Before, Str(TokenPushed("StringChar")))
    /\ dc.current_num # NumberDefault => last.a.op = "NumberChar"
    /\ dc.current_str # <<>> => last.a.op = "StringChar"

\* `_1 1` has pushed -1 and then 1.
C34_Witness ==
    /\ Stepped("PushNumber")
    /\ Before = <<Num(BigReal(-1, 0))>>
    /\ TokenPushed("NumberChar") = <<49>>
    /\ dc.stack = <<Num(BigReal(-1, 0)), Num(One)>>
    /\ dc.current_num = NumberDefault

(***************************************************************************)
(* Register names through the reader (NameSpec): the loop over the reader, *)
(* as in ParseSpec, on inputs that are a register command, the byte after  *)
(* it and a few bytes more.                                                *)
(***************************************************************************)
NameCommands ==
    { <<"s">>, <<"l">>, <<"S">>, <<"L">>, <<":">>, <<";">>, <<"<">>, <<">">>, <<"=">>,
      <<"!", "<">>, <<"!", ">">>, <<"!", "=">> }

NameBytes == { " ", "\n", "#", "!", "[", "<", "x", "1", ".", "_", "e" }

NameTails ==
    { <<>>, <<"1">>, <<"e">>, <<"e", "#">>, <<"#", "1", "\n", "1">>, <<"\n">>, <<"[", "a", "]">>,
      <<"!", "1">> }

NameInputs ==
    { Bytes(c \o <<n>> \o t) : c \in NameCommands, n \in NameBytes, t \in NameTails }
        \cup { Bytes(<<"#", "s", "\n", "s", "#">>), Bytes(<<"[", "s", "#", "]", "#", "s">>) }

NameInit ==
    /\ reader \in { ReaderParser(b) : b \in NameInputs }
    /\ trace = [items |-> <<>>, steps |-> <<>>]
    /\ dc = Machine0.dc
    /\ frames = <<>>
    /\ input = <<>>
    /\ ip = 0
    /\ status = "running"
    /\ result = Continue
    /\ overflow_checks = FALSE
    /\ last = Step("none", NoAction, Continue, Machine0)
    /\ ref = Machine0
    /\ phase = "parse"

NameSpec == NameInit /\ [][ParseNext]_vars

(***************************************************************************)
(* Properties of register names (NameSpec).                                *)
(***************************************************************************)
\* Call i of Parser::step was given a byte in the state st.
ByteIn(i, st) == Steps[i].state.st = st /\ Steps[i].c # NoByte

\* Call i took the parser from another state into the state st.
Enters(i, st) == Steps[i].to.st = st /\ Steps[i].state.st # st

\* C35: the byte after s l S L : ; < > = or !< !> != is taken as the
\* register name whatever it is, white space, newline, # ! [ and < included:
\* it is not put back and the parser goes on to no comment, string, number
\* or shell command from it; a comment, like a string, a number and a `!`,
\* begins only at a byte read in the Start state, the comment at `#`.
C35_RegisterNameVerbatim ==
    \A i \in 1..Len(Steps) :
        /\ ByteIn(i, "Register") =>
              /\ Steps[i].back = NoByte
              /\ IF Steps[i].state.ra \in Comparisons
                 THEN /\ Steps[i].to = StateTwoRegister(Steps[i].state.ra, Steps[i].c, FALSE)
                      /\ Steps[i].action = NoAction
                 ELSE /\ Steps[i].to = ParseState("Start")
                      /\ Steps[i].action = Register(Steps[i].state.ra, Steps[i].c)
        /\ Steps[i].state.st = "TwoRegister" =>
              /\ Steps[i].action.op \in {"Register", "IfElse"} =>
                    Steps[i].action.c = Steps[i].state.first_reg
              /\ Steps[i].to.st \in {"Start", "TwoRegister"}
        /\ \A st \in {"Comment", "String", "Number", "Bang"} :
              Enters(i, st) => Steps[i].state.st = "Start"
        /\ Enters(i, "Comment") => Steps[i].c = 35
        /\ Enters(i, "Register") =>
              /\ Steps[i].state.st \in {"Start", "Bang"}
              /\ i < Len(Steps) /\ Steps[i + 1].c # NoByte =>
                    Steps[i + 1].state.st = "Register"

\* `s#` followed by `1`: the register is named #, and the 1 is a number.
C35_Witness ==
    /\ reader.bytes = <<115, 35, 49>>
    /\ Len(Items) = 4
    /\ Items[1] = Register("Store", 35)
    /\ Items[2] = ActionChar("NumberChar", 49)
    /\ Items[3] = Action("PushNumber")
    /\ Ended

\* The value of a digit byte: 0-9 and A-F.
DigitValue(c) == IF c >= 48 /\ c <= 57 THEN c - 48 ELSE c - 65 + 10

\* The sum of digits[i] * r^(m - i) over i in 1..n, for the m digits.
RECURSIVE PlaceSum(_, _, _)
PlaceSum(digits, r, n) ==
    IF n = 0 THEN 0
    ELSE PlaceSum(digits, r, n - 1) + DigitValue(digits[n]) * Power(r, Len(digits) - n)

\* The digit bytes of a token.
DigitsOf(token) == SelectSeq(token, IsDigit)

\* C36: a number token with the digits d1..dm and no `.` pushes the integer
\* that is the sum of di * iradix^(m - i), whether or not a digit is below
\* iradix, negated when the token begins with `_`; a token with no digit,
\* `_` or `.` alone, pushes zero.
C36_NumberEntry ==
    Stepped("PushNumber") =>
        LET token == TokenPushed("NumberChar")
            digits == DigitsOf(token)
            sum == PlaceSum(digits, dc.iradix, Len(digits))
        IN  /\ token # <<>>
            /\ (\A i \in 1..Len(token) : token[i] # 46) =>
                  dc.stack = Append(Before, Num(BigReal(IF token[1] = 95 THEN -sum ELSE sum, 0)))
            /\ digits = <<>> => dc.stack = Append(Before, Num(Zero))

\* `12A3` is 1303 when iradix is 10.
C36_Witness ==
    /\ Stepped("PushNumber")
    /\ dc.iradix = 10
    /\ TokenPushed("NumberChar") = <<49, 50, 65, 51>>
    /\ top(dc) = Num(BigReal(1303, 0))

(***************************************************************************)
(* Roots and powers through the evaluator (RootSpec): v on one positive    *)
(* number, or ^ on a base and an exponent, at every scale up to MaxScale.  *)
(***************************************************************************)
\* Operands of v
RootOperands ==
    { BigReal(v, s) : v \in {1, 2, 3, 5, 8, 15, 16, 24, 25, 99, 100, 1592}, s \in {0, 1, 3} }

\* Operands of ^: base and exponent
PowerBases ==
    { BigReal(v, 0) : v \in {-3, 0, 1, 2, 10} }
        \cup { BigReal(v, 1) : v \in {-25, 0, 5, 15} }

PowerExponents ==
    { BigReal(v, 0) : v \in {-5, -2, -1, 0, 1, 2, 3, 5} }
        \cup { BigReal(v, 1) : v \in {-25, -5, 5, 15} }

RootStacks ==
    { <<Num(n)>> : n \in RootOperands }
        \cup { <<Num(b), Num(e)>> : b \in PowerBases, e \in PowerExponents }

RootInit ==
    /\ \E st \in RootStacks, sc \in NumScales : dc = [new(Stdin) EXCEPT !.stack = st, !.scale = sc]
    /\ frames = <<>>
    /\ input = <<>>
    /\ ip = 0
    /\ status = "running"
    /\ result = Continue
    /\ overflow_checks = FALSE
    /\ last = Step("none", NoAction, Continue, Machine0)
    /\ ref = Machine0
    /\ phase = "ready"
    /\ reader = ReaderParser(<<>>)
    /\ trace = <<>>

NumRoot == Apply(Action("Sqrt"))

NumPower == Apply(Action("Exp"))

RootNext == NumRoot \/ NumPower

RootSpec == RootInit /\ [][RootNext]_vars

\* v has run on a positive number.
RootOfPositive ==
    /\ OnTop("Sqrt")
    /\ top(last.m.dc).t = "Num"
    /\ top(last.m.dc).n.value > 0

\* The number v ran on.
Radicand == top(last.m.dc).n

\* The shift of the root: max(shift(n), k).
RootShift == Max(Radicand.shift, ScaleBefore)

\* The radicand with twice RootShift fraction digits, as an integer.
RadicandSquared == Radicand.value * Pow10(2 * RootShift - Radicand.shift)

\* C37: for every positive number n and scale k, v pushes r with shift
\* s = max(shift(n), k) such that r * r <= n < (r + 10^-s)^2: the root is
\* truncated, never rounded up.
C37_SqrtTruncated ==
    RootOfPositive =>
        /\ ~Errored
        /\ Len(dc.stack) = Len(Before)
        /\ top(dc).t = "Num"
        /\ top(dc).n.shift = RootShift
        /\ top(dc).n.value * top(dc).n.value <= RadicandSquared
        /\ RadicandSquared < (top(dc).n.value + 1) * (top(dc).n.value + 1)

\* C38: for every positive number and every scale the Newton iteration of
\* v ends, and no iterate is zero, so that the division of the number by
\* the iterate never divides by zero: v returns without a panic, within the
\* iterations allowed, and pushes a positive root.
C38_NewtonTerminates ==
    RootOfPositive =>
        /\ last.r = Continue
        /\ dc.stack = Append(Drop(Before, 1), top(dc))
        /\ top(dc).t = "Num"
        /\ top(dc).n.value > 0

\* .001 at scale 0: the iterates .001, .500, .251, ... end at .031.
C38_Witness ==
    /\ RootOfPositive
    /\ Radicand = BigReal(1, 3)
    /\ ScaleBefore = 0
    /\ last.r = Continue
    /\ dc.stack = <<Num(BigReal(31, 3))>>

\* ^ has run on a base and an exponent.
PowerOfNumbers ==
    /\ Ran("Exp")
    /\ Len(Before) = 2
    /\ Before[1].t = "Num" /\ Before[2].t = "Num"

PowerBase == Before[1].n

\* The integer part of the exponent, truncated toward zero.
PowerCount ==
    LET e == Before[2].n
        whole == Abs(e.value) \div Pow10(e.shift)
    IN  IF e.value < 0 THEN -whole ELSE whole

\* The product of n copies of b, of shift n * shift(b).
Product(b, n) == BigReal(Power(b.value, n), n * b.shift)

\* C39: for every base b and exponent e with truncated integer part n, and
\* every scale k, pow(b, e, k) is one, of shift 0, if n = 0; the exact
\* product of n copies of b, of shift n * shift(b), if n > 0; and
\* div(1, b^|n|, k), of shift k, if n < 0, which divides by zero when the
\* product is zero.
C39_Power ==
    PowerOfNumbers =>
        /\ PowerCount = 0 => dc.stack = <<Num(BigReal(1, 0))>>
        /\ PowerCount > 0 => dc.stack = <<Num(Product(PowerBase, PowerCount))>>
        /\ PowerCount < 0 /\ Product(PowerBase, -PowerCount).value # 0 =>
              /\ Len(dc.stack) = 1
              /\ dc.stack[1].t = "Num"
              /\ IsDiv(dc.stack[1].n, BigReal(1, 0), Product(PowerBase, -PowerCount), ScaleBefore)
        /\ PowerCount < 0 /\ Product(PowerBase, -PowerCount).value = 0 =>
              last.r = Panic("attempt to divide by zero")

\* 1.5 to the power -2.5 at scale 2: 1 / 2.25, which is .44.
C39_Witness ==
    /\ PowerOfNumbers
    /\ PowerBase = BigReal(15, 1)
    /\ Before[2].n = BigReal(-25, 1)
    /\ ScaleBefore = 2
    /\ dc.stack = <<Num(BigReal(44, 2))>>

\* C40: ^ never divides by zero: for every pair of numbers, a base of 0
\* with a negative exponent included, it pushes a result or returns an
\* error value, and the evaluator is never aborted.
C40_ExpNeverDividesByZero ==
    PowerOfNumbers =>
        /\ last.r.kind # "Panic"
        /\ \/ last.r = Continue /\ Len(dc.stack) = 1
           \/ last.r.kind = "Err"

====
